---- MODULE Spec2Model ----
(***************************************************************************)
(* Gym-Logger: the dashboard statistics (calculateStreak), the workout     *)
(* session timer (WorkoutSession) and the workouts/exercises tables as the *)
(* client views write them.                                                *)
(*                                                                         *)
(* Two clocks are used.  The dashboard works on calendar days, so its      *)
(* instants (dashNow, completed_at of the fetched rows) are counted in     *)
(* hours since the epoch.  The session timer works on seconds, so its      *)
(* instants (now, startTime, completed_at written by Finish) are counted   *)
(* in clock units of which SecLen make one second.                         *)
(***************************************************************************)
EXTENDS Integers, Sequences, FiniteSets, TLC

\* ------------------------------------------------------------------------
\* Bounds
\* ------------------------------------------------------------------------

\* Calendar days 0..MaxDay carry the completions the dashboard may fetch.
MaxDay == 4

\* At most this many completed workouts are fetched by the dashboard.
MaxCompleted == 4

\* The 86400000 ms of one day, in hours.
DayLen == 24

\* UTC offsets (hours) of the browser's time zone: one west of Greenwich,
\* UTC itself, one east of Greenwich.  Fixed-offset zones only (no DST).
TzOffsets == {-5, 0, 9}

\* Hours of the day (UTC) at which a completion may have been stamped.
DayHours == {2, 20}

\* The instants a completed_at may hold.
Instants == {d * DayLen + h : d \in 0..MaxDay, h \in DayHours}

\* (workouts || []).slice(0, 5): the rows kept as recentWorkouts
RecentLen == 5

\* differenceInDays(new Date(), parseISO(w.completed_at)) < 7
WeekLen == 7

\* At most this many completed workouts are stored when the "This Week"
\* card is examined.
MaxRecent == 6

\* The calendar days that matter to the "This Week" card shown on day
\* WeekLen: a week before, the day after that, and the day itself.
WeekDays == {0, 1, WeekLen}

\* The instants a completed_at may hold when the card is examined.
WeekInstants == {d * DayLen + h : d \in WeekDays, h \in DayHours}

\* The instants at which the card is rendered.
WeekNows == {WeekLen * DayLen + h : h \in DayHours}

\* Clock units per second: the 1000 ms of the timer, at the resolution of
\* the model's clock.
SecLen == 2

\* The session clock (Date.now()) runs from 1 to MaxClock.
MaxClock == 4

\* At most this many workout rows are stored at a time.
MaxRows == 2

\* At most this many food_entries rows are stored at a time.
MaxFood == 2

\* At most this many answers of fetchFoodEntries are on their way at a time.
MaxFetches == 2

\* The calendar days the date selector of the food tracker may be set to.
FoodDays == 0..2

\* The instants a consumed_at stored from elsewhere may hold: this morning
\* (UTC).
FoodInstants == {DayLen + 2}

\* The instants at which the food tracker is used.
FoodNows == {DayLen + h : h \in DayHours}

\* Search queries as typed into the search field, character by character.
QueryInputs == {<<"E", "A">>, <<"z", "z">>, <<" ">>}

\* null, for the nullable numbers (completed_at, duration, weight, startTime)
Null == -1

\* the signed-in user
User == "u1"

\* another user of the same database
OtherUser == "u2"

\* somebody who has not signed up yet
NewUser == "u3"

\* a request made with the public API key and no session
Anon == "anon"

\* the e-mail address a user signs up with
EmailOf(u) == <<u, "@">>

\* Titles as typed into the title field, character by character.
TitleInputs == {<<"A", " ">>, <<" ">>}

\* Exercises as entered in the forms (default sets 3, reps 10, weight null).
Ex1 == [name |-> "Squats", sets |-> 3, reps |-> 10, weight |-> Null]
Ex2 == [name |-> "Rows", sets |-> 4, reps |-> 8, weight |-> 50]

\* The titles the edit form may hold when it is saved.
EditTitleInputs == {<<" ", "B">>, <<" ">>}

\* The exercise lists a form may hold when it is saved.
ExerciseInputs == {<<>>, <<Ex1, Ex2>>}

\* The texts a sets or reps field may deliver to its onChange handler,
\* character by character.
FieldInputs == {<<"-", "2">>, <<"0">>, <<"2", ".", "5">>, <<>>}

VARIABLES
    now,            \* Date.now(), in clock units
    workouts,       \* workouts table: id -> row
    exercises,      \* exercises table: the rows, in insertion order
    sWorkout,       \* WorkoutSession: workout
    isRunning,      \* WorkoutSession: isRunning
    startTime,      \* WorkoutSession: startTime
    elapsedTime,    \* WorkoutSession: elapsedTime
    saving,         \* WorkoutSession: saving
    finishReq,      \* handleFinish: the update request in flight
    navState,       \* router: location.state of the last navigate()
    ranFor,         \* history: clock units that passed while this session ran
    pausedFor,      \* history: clock units that passed while it was paused
    tz,             \* UTC offset of the browser's time zone (hours)
    dashNow,        \* the instant new Date() yields while the dashboard computes
    completedAts,   \* workouts table: completed_at of the user's completed rows,
                    \* in the order the dashboard query returns them (descending)
    view,           \* the route shown: [name, id]
    dashLoading,    \* Dashboard: loading
    dashWorkouts,   \* Dashboard.fetchDashboardData: the rows `workouts` fetched
    stats,          \* Dashboard: stats
    foodTable,      \* food_entries table: the rows, in insertion order
    foodEntries,    \* FoodTracker: foodEntries
    foodLoading,    \* FoodTracker: loading
    selectedDate,   \* FoodTracker: selectedDate
    searchQuery,    \* FoodTracker: searchQuery
    searchResults,  \* FoodTracker: searchResults
    alert,          \* window.alert: the message the last step showed, "" if none
    logged,         \* console.error: the message the last step logged, "" if none
    thrown,         \* the request whose error the last step threw, "" if none
    apiCall,        \* the last request made of the database directly, and its answer
    authUsers,      \* auth.users: the ids of the users that signed up
    profiles,       \* profiles table: id -> row
    foodFetches,    \* fetchFoodEntries: the answers on their way to the tracker
    editSaves,      \* EditWorkout.handleSaveWorkout in each of two tabs: the
                    \* form saved and the await the handler stands at
    idLimit         \* the number of workout rows that may be stored at a time

dashVars == <<tz, dashNow, completedAts, dashLoading, dashWorkouts, stats>>

dbVars == <<workouts, exercises>>

\* history variables: no state of the program, a record of how the clock
\* moved during the session shown
histVars == <<ranFor, pausedFor>>

sessVars == <<sWorkout, isRunning, startTime, elapsedTime, saving,
              histVars>>

profileVars == <<authUsers, profiles>>

auxVars == <<foodFetches, editSaves, idLimit>>

foodVars == <<foodTable, foodEntries, foodLoading, selectedDate, searchQuery,
              searchResults>>

vars == <<dashVars, view, now, dbVars, sessVars, finishReq, navState,
          foodVars, alert, logged, thrown, apiCall, profileVars, auxVars>>

\* ------------------------------------------------------------------------
\* Dates (date-fns format / parseISO / differenceInDays, Date constructor)
\* ------------------------------------------------------------------------

\* format(date, 'yyyy-MM-dd'): the calendar day of an instant in LOCAL time.
\* A day string is modelled by its day number.
Format(t) == (t + tz) \div DayLen

\* new Date('yyyy-MM-dd'): a date-only string is read as midnight UTC.
NewDate(d) == d * DayLen

\* differenceInDays(left, right): the number of full days between two
\* instants, truncated toward zero.
differenceInDays(left, right) ==
    IF left >= right THEN (left - right) \div DayLen
    ELSE -((right - left) \div DayLen)

\* .filter((date, index, arr) => arr.indexOf(date) === index)
RECURSIVE FirstOccurrences(_)
FirstOccurrences(s) ==
    IF s = <<>> THEN <<>>
    ELSE LET n == Len(s)
             front == SubSeq(s, 1, n - 1)
         IN IF \E i \in 1..(n - 1) : s[i] = s[n]
            THEN FirstOccurrences(front)
            ELSE Append(FirstOccurrences(front), s[n])

\* insertion of one day string into a list ordered by the comparator
\* (a, b) => new Date(b).getTime() - new Date(a).getTime()
RECURSIVE InsertDesc(_, _)
InsertDesc(s, d) ==
    IF s = <<>> THEN <<d>>
    ELSE IF NewDate(Head(s)) - NewDate(d) < 0
         THEN <<d>> \o s
         ELSE <<Head(s)>> \o InsertDesc(Tail(s), d)

\* .sort((a, b) => new Date(b).getTime() - new Date(a).getTime())
RECURSIVE SortDesc(_)
SortDesc(s) ==
    IF s = <<>> THEN <<>>
    ELSE InsertDesc(SortDesc(SubSeq(s, 1, Len(s) - 1)), s[Len(s)])

\* workouts.map(w => format(parseISO(w.completed_at), 'yyyy-MM-dd'))
MapFormat(ws) == [i \in 1..Len(ws) |-> Format(ws[i])]

\* workoutDates with the filter of first occurrences left out
workoutDates_NoFilter(ws) == SortDesc(MapFormat(ws))

\* const workoutDates = workouts.map(...).filter(...).sort(...)
workoutDates(ws) == SortDesc(FirstOccurrences(MapFormat(ws)))

\* the for loop of calculateStreak
RECURSIVE StreakLoop(_, _, _)
StreakLoop(dates, streak, currentDate) ==
    IF dates = <<>> THEN streak
    ELSE LET workoutDate == Head(dates)
             daysDiff == differenceInDays(NewDate(currentDate), NewDate(workoutDate))
         IN IF daysDiff = 0
            THEN StreakLoop(Tail(dates), streak + 1,
                            Format(NewDate(currentDate) - DayLen))
            ELSE IF daysDiff = 1
                 THEN StreakLoop(Tail(dates), streak + 1, workoutDate)
                 ELSE streak

calculateStreak(ws) ==
    IF Len(ws) = 0 THEN 0
    ELSE StreakLoop(workoutDates(ws), 0, Format(dashNow))

\* ------------------------------------------------------------------------
\* Tables and component state
\* ------------------------------------------------------------------------

\* <Route path=... element=...>: the component shown, with its :id parameter
\* (0 when the route has none).
Route(name, id) == [name |-> name, id |-> id]

\* a value that `!x` and `x ? a : b` treat as absent
Falsy(x) == x = Null \/ x = 0

\* array.slice(0, n)
Slice0(s, n) == SubSeq(s, 1, IF Len(s) < n THEN Len(s) ELSE n)

\* title.trim()
RECURSIVE TrimStart(_)
TrimStart(t) ==
    IF t # <<>> /\ Head(t) = " " THEN TrimStart(Tail(t)) ELSE t

RECURSIVE TrimEnd(_)
TrimEnd(t) ==
    IF t # <<>> /\ t[Len(t)] = " " THEN TrimEnd(SubSeq(t, 1, Len(t) - 1)) ELSE t

\* title.trim(), were the white space kept
Trim_Keep(t) == t

\* title.trim()
Trim(t) == TrimEnd(TrimStart(t))

\* the decimal digits
Digits == <<"0", "1", "2", "3", "4", "5", "6", "7", "8", "9">>

IsDigit(c) == \E i \in 1..Len(Digits) : Digits[i] = c

DigitValue(c) == (CHOOSE i \in 1..Len(Digits) : Digits[i] = c) - 1

\* the leading digits of a text, read as a number; NaN when there is none
RECURSIVE ParseDigits(_, _, _)
ParseDigits(text, n, seen) ==
    IF text # <<>> /\ IsDigit(Head(text))
    THEN ParseDigits(Tail(text), 10 * n + DigitValue(Head(text)), TRUE)
    ELSE [nan |-> ~seen, n |-> n]

\* parseInt(text): leading white space, an optional sign, the leading
\* digits; what follows them is ignored
parseInt(text) ==
    LET t == TrimStart(text)
        signed == t # <<>> /\ Head(t) \in {"-", "+"}
        r == ParseDigits(IF signed THEN Tail(t) ELSE t, 0, FALSE)
    IN IF ~r.nan /\ signed /\ Head(t) = "-"
       THEN [nan |-> FALSE, n |-> -r.n]
       ELSE r

\* parseInt(e.target.value) || 1
ParseIntOr1(text) ==
    LET r == parseInt(text)
    IN IF r.nan \/ r.n = 0 THEN 1 ELSE r.n

\* the exercise added to the form after the sets and reps fields received
\* the given texts: {...currentExercise} with weight left empty
FormExercise(setsText, repsText) ==
    [name |-> "Lunges", sets |-> ParseIntOr1(setsText),
     reps |-> ParseIntOr1(repsText), weight |-> Null]

\* The exercise lists a form may hold after one exercise was typed in.
FormExerciseInputs ==
    {<<FormExercise(setsText, repsText)>> : setsText, repsText \in FieldInputs}

\* the title of a routine, were it the title of the workout as it is
RoutineTitle_Plain(t) == t

\* `${workout.title} (Routine)`
RoutineTitle(t) == t \o <<" ", "(Routine)">>

\* a row as .insert({user_id, title, is_routine}) stores it: completed_at
\* and duration take their column default, null
NewWorkoutRow(title, isRoutine) ==
    [user_id |-> User, title |-> title, is_routine |-> isRoutine,
     completed_at |-> Null, duration |-> Null]

\* exercises.map(exercise => ({workout_id, name, sets, reps, weight}))
ExerciseInserts(id, exs) ==
    [i \in 1..Len(exs) |->
        [workout_id |-> id, name |-> exs[i].name, sets |-> exs[i].sets,
         reps |-> exs[i].reps, weight |-> exs[i].weight]]

\* the exercises of workout id among rows: name, sets, reps and weight, in
\* the order of the rows
ExercisesAmong(rows, id) ==
    LET own == SelectSeq(rows, LAMBDA e : e.workout_id = id)
    IN [i \in 1..Len(own) |->
           [name |-> own[i].name, sets |-> own[i].sets,
            reps |-> own[i].reps, weight |-> own[i].weight]]

\* select('*, exercises (*)'): the exercises embedded in a workout row
ExercisesOf(id) ==
    LET rows == SelectSeq(exercises, LAMBDA e : e.workout_id = id)
    IN [i \in 1..Len(rows) |->
           [name |-> rows[i].name, sets |-> rows[i].sets,
            reps |-> rows[i].reps, weight |-> rows[i].weight]]

\* the exercises table after a workout was deleted, were its exercises kept
WithoutExercisesOf_NoCascade(id) == exercises

\* workout_id uuid REFERENCES workouts(id) ON DELETE CASCADE
WithoutExercisesOf(id) == SelectSeq(exercises, LAMBDA e : e.workout_id # id)

\* the browser tabs an edit form may be open in
Tabs == {1, 2}

\* a tab whose edit form has not been saved
NoSave == [pc |-> "idle", id |-> 0, title |-> <<>>, exercises |-> <<>>]

\* useState<Workout | null>(null)
NoWorkout == [id |-> 0, title |-> <<>>, exercises |-> <<>>]

\* no update request in flight.  A request carries `live`: the component
\* whose handleFinish awaits it is still mounted (its setSaving has an effect).
NoReq == [id |-> 0, completed_at |-> Null, duration |-> Null, live |-> FALSE]

\* the request in flight once the component that awaits it is unmounted
Orphaned(req) == [req EXCEPT !.live = FALSE]

\* no request made of the database directly
NoCall == [user |-> "", table |-> "", op |-> "", target |-> 0, rows |-> {}]

\* no location.state
NoNav == [completed |-> FALSE, duration |-> Null]

\* id uuid PRIMARY KEY DEFAULT gen_random_uuid(): the ids a new row may get
\* are those that no row, request or route refers to
FreeIds ==
    {i \in 1..idLimit :
        /\ i \notin DOMAIN workouts
        /\ i # finishReq.id
        /\ i # view.id}

\* the id of the next inserted row; which of the free ids it is makes no
\* difference
NewId == CHOOSE i \in FreeIds : \A j \in FreeIds : i <= j

\* the state a WorkoutSession component starts with (and leaves nothing of
\* when it is unmounted)
SessionFresh ==
    /\ sWorkout' = NoWorkout
    /\ isRunning' = FALSE
    /\ startTime' = Null
    /\ elapsedTime' = 0
    /\ saving' = FALSE
    /\ ranFor' = 0
    /\ pausedFor' = 0

ClientStart ==
    /\ now = 1
    /\ workouts = <<>>
    /\ exercises = <<>>
    /\ view = Route("workouts", 0)
    /\ sWorkout = NoWorkout
    /\ isRunning = FALSE
    /\ startTime = Null
    /\ elapsedTime = 0
    /\ saving = FALSE
    /\ ranFor = 0
    /\ pausedFor = 0
    /\ finishReq = NoReq
    /\ navState = NoNav
    /\ foodTable = <<>>
    /\ foodEntries = <<>>
    /\ foodLoading = TRUE
    /\ selectedDate = Null
    /\ searchQuery = <<>>
    /\ searchResults = <<>>
    /\ alert = ""
    /\ logged = ""
    /\ thrown = ""
    /\ apiCall = NoCall
    /\ authUsers = {User}
    /\ profiles = (User :> [email |-> EmailOf(User)])
    /\ foodFetches = {}
    /\ editSaves = [tab \in Tabs |-> NoSave]

\* the state the program starts in, with room for MaxRows workouts
ClientInit ==
    /\ ClientStart
    /\ idLimit = MaxRows

\* ------------------------------------------------------------------------
\* Navigation
\* ------------------------------------------------------------------------

\* A link of the layout or a back arrow: navigate('/workouts'), '/workouts/new',
\* '/routines'.  The component shown before is unmounted.
GoTo(name) ==
    /\ view.name # name
    /\ view' = Route(name, 0)
    /\ navState' = NoNav
    /\ SessionFresh
    /\ finishReq' = Orphaned(finishReq)
    /\ UNCHANGED <<now, dbVars, dashVars, foodVars, apiCall, profileVars, auxVars>>
    /\ thrown' = ""
    /\ logged' = ""
    /\ alert' = ""

\* <Route path="/workouts/:id/start">: WorkoutSession is mounted and
\* fetchWorkout answers.  .single() fails when no row matches.
OpenSession(id, ok) ==
    /\ view.name # "session"
    /\ navState' = NoNav
    /\ IF ok /\ id \in DOMAIN workouts /\ workouts[id].user_id = User
       THEN /\ view' = Route("session", id)
            /\ sWorkout' = [id |-> id, title |-> workouts[id].title,
                            exercises |-> ExercisesOf(id)]
            /\ UNCHANGED <<isRunning, startTime, elapsedTime, saving, histVars>>
       ELSE /\ view' = Route("workouts", 0)
            /\ UNCHANGED sessVars
    /\ UNCHANGED <<now, dbVars, finishReq, dashVars, foodVars, apiCall, profileVars, auxVars>>
    /\ thrown' = IF view'.name = "session" THEN "" ELSE "workouts.select"
    /\ logged' = IF view'.name = "session" THEN "" ELSE "Error fetching workout:"
    /\ alert' = ""

\* <Route path="/workouts/:id/edit">: EditWorkout is mounted and fetchWorkout
\* answers.
OpenEdit(id, ok) ==
    /\ view.name \notin {"session", "edit"}
    /\ navState' = NoNav
    /\ IF ok /\ id \in DOMAIN workouts /\ workouts[id].user_id = User
       THEN view' = Route("edit", id)
       ELSE view' = Route("workouts", 0)
    /\ UNCHANGED <<now, dbVars, sessVars, finishReq, dashVars, foodVars, apiCall, profileVars, auxVars>>
    /\ thrown' = IF view'.name = "edit" THEN "" ELSE "workouts.select"
    /\ logged' = IF view'.name = "edit" THEN "" ELSE "Error fetching workout:"
    /\ alert' = ""

\* ------------------------------------------------------------------------
\* WorkoutSession
\* ------------------------------------------------------------------------

\* the session view is rendered with its workout loaded
SessionShown == view.name = "session" /\ sWorkout.id # 0

\* time passes; no handler of another view reads the clock, so the time
\* spent there is left out
AdvanceClock ==
    /\ now < MaxClock
    /\ view.name = "session"
    /\ now' = now + 1
    /\ ranFor' = IF SessionShown /\ ~Falsy(startTime) /\ isRunning
                 THEN ranFor + 1 ELSE ranFor
    /\ pausedFor' = IF SessionShown /\ ~Falsy(startTime) /\ ~isRunning
                    THEN pausedFor + 1 ELSE pausedFor
    /\ UNCHANGED <<view, dbVars, sWorkout, isRunning, startTime,
                   elapsedTime, saving, finishReq, navState, dashVars, foodVars, apiCall, profileVars, auxVars>>
    /\ thrown' = ""
    /\ logged' = ""
    /\ alert' = ""

\* handleStart that sets isRunning without recording the start
handleStart_RunningOnly ==
    /\ SessionShown
    /\ Falsy(startTime)
    /\ isRunning' = TRUE
    /\ UNCHANGED <<now, view, dbVars, sWorkout, startTime, elapsedTime, saving,
                   histVars, finishReq, navState, dashVars, foodVars, apiCall, profileVars, auxVars>>
    /\ thrown' = ""
    /\ logged' = ""
    /\ alert' = ""

\* the "Start Workout" button, rendered when !startTime
handleStart ==
    /\ SessionShown
    /\ Falsy(startTime)
    /\ isRunning' = TRUE
    /\ startTime' = now
    /\ UNCHANGED <<now, view, dbVars, sWorkout, elapsedTime, saving,
                   histVars, finishReq, navState, dashVars, foodVars, apiCall, profileVars, auxVars>>
    /\ thrown' = ""
    /\ logged' = ""
    /\ alert' = ""

\* the "Pause" button, rendered when startTime && isRunning
handlePause ==
    /\ SessionShown
    /\ ~Falsy(startTime)
    /\ isRunning
    /\ isRunning' = FALSE
    /\ UNCHANGED <<now, view, dbVars, sWorkout, startTime, elapsedTime,
                   saving, histVars, finishReq, navState, dashVars, foodVars, apiCall, profileVars, auxVars>>
    /\ thrown' = ""
    /\ logged' = ""
    /\ alert' = ""

\* handleResume that leaves startTime as it was
handleResume_KeepsStart ==
    /\ SessionShown
    /\ ~Falsy(startTime)
    /\ ~isRunning
    /\ isRunning' = TRUE
    /\ UNCHANGED <<now, view, dbVars, sWorkout, startTime, elapsedTime,
                   saving, histVars, finishReq, navState, dashVars, foodVars, apiCall, profileVars, auxVars>>
    /\ thrown' = ""
    /\ logged' = ""
    /\ alert' = ""

\* the "Resume" button, rendered when startTime && !isRunning
handleResume ==
    /\ SessionShown
    /\ ~Falsy(startTime)
    /\ ~isRunning
    /\ isRunning' = TRUE
    /\ startTime' = now - elapsedTime * SecLen
    /\ UNCHANGED <<now, view, dbVars, sWorkout, elapsedTime, saving,
                   histVars, finishReq, navState, dashVars, foodVars, apiCall, profileVars, auxVars>>
    /\ thrown' = ""
    /\ logged' = ""
    /\ alert' = ""

\* TimerTick of an interval that is not cleared when the session is paused
TimerTick_NotCleared ==
    /\ SessionShown
    /\ ~Falsy(startTime)
    /\ elapsedTime' = (now - startTime) \div SecLen
    /\ UNCHANGED <<now, view, dbVars, sWorkout, isRunning, startTime,
                   saving, histVars, finishReq, navState, dashVars, foodVars, apiCall, profileVars, auxVars>>
    /\ thrown' = ""
    /\ logged' = ""
    /\ alert' = ""

\* the interval of the timer effect, which exists while isRunning && startTime
TimerTick ==
    /\ SessionShown
    /\ isRunning
    /\ ~Falsy(startTime)
    /\ elapsedTime' = (now - startTime) \div SecLen
    /\ UNCHANGED <<now, view, dbVars, sWorkout, isRunning, startTime,
                   saving, histVars, finishReq, navState, dashVars, foodVars, apiCall, profileVars, auxVars>>
    /\ thrown' = ""
    /\ logged' = ""
    /\ alert' = ""

\* handleFinish of a button that is rendered before the session has started
handleFinish_BeforeStart ==
    /\ SessionShown
    /\ ~saving
    /\ finishReq = NoReq
    /\ saving' = TRUE
    /\ finishReq' = [id |-> sWorkout.id, completed_at |-> now,
                     duration |-> elapsedTime, live |-> TRUE]
    /\ UNCHANGED <<now, view, dbVars, sWorkout, isRunning, startTime,
                   elapsedTime, histVars, navState, dashVars, foodVars, apiCall, profileVars, auxVars>>
    /\ thrown' = ""
    /\ logged' = ""
    /\ alert' = ""

\* handleFinish that sends the time since startTime instead of elapsedTime
handleFinish_SinceStart ==
    /\ SessionShown
    /\ ~Falsy(startTime)
    /\ ~saving
    /\ finishReq = NoReq
    /\ saving' = TRUE
    /\ finishReq' = [id |-> sWorkout.id, completed_at |-> now,
                     duration |-> (now - startTime) \div SecLen, live |-> TRUE]
    /\ UNCHANGED <<now, view, dbVars, sWorkout, isRunning, startTime,
                   elapsedTime, histVars, navState, dashVars, foodVars, apiCall, profileVars, auxVars>>
    /\ thrown' = ""
    /\ logged' = ""
    /\ alert' = ""

\* the "Finish" button, rendered when startTime and disabled while saving:
\* handleFinish up to its await.  One update request is in flight at a time.
handleFinish ==
    /\ SessionShown
    /\ ~Falsy(startTime)
    /\ ~saving
    /\ finishReq = NoReq
    /\ saving' = TRUE
    /\ finishReq' = [id |-> sWorkout.id, completed_at |-> now,
                     duration |-> elapsedTime, live |-> TRUE]
    /\ UNCHANGED <<now, view, dbVars, sWorkout, isRunning, startTime,
                   elapsedTime, histVars, navState, dashVars, foodVars, apiCall, profileVars, auxVars>>
    /\ thrown' = ""
    /\ logged' = ""
    /\ alert' = ""

\* FinishUpdate that writes the completion timestamp without the duration
FinishUpdate_TimestampOnly(req) ==
    IF req.id \in DOMAIN workouts
    THEN [workouts EXCEPT ![req.id].completed_at = req.completed_at]
    ELSE workouts

\* .update({completed_at, duration}).eq('id', workout.id), as the table
\* applies it: no row matching is not an error
FinishUpdate(req) ==
    IF req.id \in DOMAIN workouts
    THEN [workouts EXCEPT ![req.id].completed_at = req.completed_at,
                          ![req.id].duration = req.duration]
    ELSE workouts

\* handleFinish after its await: the update is applied and the router goes
\* to '/workouts' with {completed: true, duration}, or the update fails and
\* the alert is shown.
FinishResponse(ok) ==
    /\ finishReq # NoReq
    /\ finishReq' = NoReq
    /\ IF ok
       THEN /\ workouts' = FinishUpdate(finishReq)
            /\ view' = Route("workouts", 0)
            /\ navState' = [completed |-> TRUE, duration |-> finishReq.duration]
            /\ SessionFresh
       ELSE /\ saving' = IF finishReq.live THEN FALSE ELSE saving
            /\ UNCHANGED <<workouts, view, navState, sWorkout, isRunning,
                           startTime, elapsedTime, histVars>>
    /\ UNCHANGED <<now, exercises, dashVars, foodVars, apiCall, profileVars, auxVars>>
    /\ thrown' = IF ok THEN "" ELSE "workouts.update"
    /\ logged' = IF ok THEN "" ELSE "Error finishing workout:"
    /\ alert' = IF ok THEN "" ELSE "Error finishing workout. Please try again."

\* the "Save as Routine" button, rendered when startTime
handleSaveAsRoutine(outcome) ==
    /\ SessionShown
    /\ ~Falsy(startTime)
    /\ FreeIds # {}
    /\ IF outcome = "routineError"
       THEN UNCHANGED dbVars
       ELSE /\ workouts' = workouts @@
                  (NewId :> NewWorkoutRow(RoutineTitle(sWorkout.title), TRUE))
            /\ exercises' = IF outcome = "exercisesError" THEN exercises
                            ELSE exercises \o ExerciseInserts(NewId, sWorkout.exercises)
    /\ UNCHANGED <<now, view, sessVars, finishReq, navState, dashVars, foodVars, apiCall, profileVars, auxVars>>
    /\ thrown' = IF outcome = "ok" THEN ""
                 ELSE IF outcome = "routineError" THEN "workouts.insert"
                 ELSE "exercises.insert"
    /\ logged' = IF outcome = "ok" THEN "" ELSE "Error saving routine:"
    /\ alert' = IF outcome = "ok" THEN "Workout saved as routine!"
                ELSE "Error saving routine. Please try again."

\* ------------------------------------------------------------------------
\* CreateWorkout, EditWorkout, WorkoutList, RoutineList
\* ------------------------------------------------------------------------

\* CreateWorkout.handleSaveWorkout, were the workout row taken back when the
\* insert of its exercises fails
CreateWorkout_handleSaveWorkout_Rollback(title, exs, outcome) ==
    /\ view.name = "new"
    /\ IF Trim(title) = <<>> \/ Len(exs) = 0
       THEN UNCHANGED <<dbVars, view>>
       ELSE /\ FreeIds # {}
            /\ IF outcome \in {"workoutError", "exercisesError"}
               THEN UNCHANGED <<dbVars, view>>
               ELSE /\ workouts' = workouts @@
                          (NewId :> NewWorkoutRow(Trim(title), FALSE))
                    /\ exercises' = exercises \o ExerciseInserts(NewId, exs)
                    /\ view' = Route("workouts", 0)
    /\ navState' = IF view' = view THEN navState ELSE NoNav
    /\ UNCHANGED <<now, sessVars, finishReq, dashVars, foodVars, apiCall, profileVars, auxVars>>
    /\ thrown' = IF Trim(title) = <<>> \/ Len(exs) = 0 \/ outcome = "ok" THEN ""
                 ELSE (IF outcome = "workoutError" THEN "workouts.insert" ELSE "exercises.insert")
    /\ logged' = IF Trim(title) = <<>> \/ Len(exs) = 0 \/ outcome = "ok" THEN ""
                 ELSE "Error saving workout:"
    /\ alert' = IF Trim(title) = <<>> \/ Len(exs) = 0
                THEN "Please add a title and at least one exercise"
                ELSE IF outcome = "ok" THEN ""
                ELSE "Error saving workout. Please try again."

\* CreateWorkout.handleSaveWorkout with the form holding title and exs
CreateWorkout_handleSaveWorkout(title, exs, outcome) ==
    /\ view.name = "new"
    /\ IF Trim(title) = <<>> \/ Len(exs) = 0
       THEN UNCHANGED <<dbVars, view>>
       ELSE /\ FreeIds # {}
            /\ IF outcome = "workoutError"
               THEN UNCHANGED <<dbVars, view>>
               ELSE /\ workouts' = workouts @@
                          (NewId :> NewWorkoutRow(Trim(title), FALSE))
                    /\ IF outcome = "exercisesError"
                       THEN UNCHANGED <<exercises, view>>
                       ELSE /\ exercises' = exercises \o ExerciseInserts(NewId, exs)
                            /\ view' = Route("workouts", 0)
    /\ navState' = IF view' = view THEN navState ELSE NoNav
    /\ UNCHANGED <<now, sessVars, finishReq, dashVars, foodVars, apiCall, profileVars, auxVars>>
    /\ thrown' = IF Trim(title) = <<>> \/ Len(exs) = 0 \/ outcome = "ok" THEN ""
                 ELSE (IF outcome = "workoutError" THEN "workouts.insert" ELSE "exercises.insert")
    /\ logged' = IF Trim(title) = <<>> \/ Len(exs) = 0 \/ outcome = "ok" THEN ""
                 ELSE "Error saving workout:"
    /\ alert' = IF Trim(title) = <<>> \/ Len(exs) = 0
                THEN "Please add a title and at least one exercise"
                ELSE IF outcome = "ok" THEN ""
                ELSE "Error saving workout. Please try again."

\* the title update, were it to reset the completion as well
TitleUpdate_ClearsCompletion(id, title) ==
    IF id \in DOMAIN workouts
    THEN [workouts EXCEPT ![id].title = title, ![id].completed_at = Null,
                          ![id].duration = Null]
    ELSE workouts

\* .update({title}).eq('id', workout.id)
TitleUpdate(id, title) ==
    IF id \in DOMAIN workouts
    THEN [workouts EXCEPT ![id].title = title]
    ELSE workouts

\* EditWorkout.handleSaveWorkout, were the title and the exercises put back
\* when the insert of the new exercises fails
EditWorkout_handleSaveWorkout_Restoring(title, exs, outcome) ==
    /\ view.name = "edit"
    /\ IF Trim(title) = <<>> \/ Len(exs) = 0
       THEN UNCHANGED <<dbVars, view>>
       ELSE IF outcome = "workoutError"
       THEN UNCHANGED <<dbVars, view>>
       ELSE /\ workouts' = IF outcome = "exercisesError" THEN workouts
                        ELSE TitleUpdate(view.id, Trim(title))
            /\ IF outcome = "deleteError"
               THEN UNCHANGED <<exercises, view>>
               ELSE IF outcome = "exercisesError" \/ view.id \notin DOMAIN workouts
               THEN UNCHANGED <<exercises, view>>
               ELSE /\ exercises' = WithoutExercisesOf(view.id)
                                        \o ExerciseInserts(view.id, exs)
                    /\ view' = Route("workouts", 0)
    /\ navState' = IF view' = view THEN navState ELSE NoNav
    /\ UNCHANGED <<now, sessVars, finishReq, dashVars, foodVars, apiCall, profileVars, auxVars>>
    /\ thrown' = IF Trim(title) = <<>> \/ Len(exs) = 0 \/ outcome = "ok" THEN ""
                 ELSE (IF outcome = "workoutError" THEN "workouts.update"
                  ELSE IF outcome = "deleteError" THEN "exercises.delete"
                  ELSE "exercises.insert")
    /\ logged' = IF Trim(title) = <<>> \/ Len(exs) = 0 \/ outcome = "ok" THEN ""
                 ELSE "Error saving workout:"
    /\ alert' = IF Trim(title) = <<>> \/ Len(exs) = 0
                THEN "Please add a title and at least one exercise"
                ELSE IF outcome = "ok" THEN ""
                ELSE "Error saving workout. Please try again."

\* EditWorkout.handleSaveWorkout with the form holding title and exs
EditWorkout_handleSaveWorkout(title, exs, outcome) ==
    /\ view.name = "edit"
    /\ IF Trim(title) = <<>> \/ Len(exs) = 0
       THEN UNCHANGED <<dbVars, view>>
       ELSE IF outcome = "workoutError"
       THEN UNCHANGED <<dbVars, view>>
       ELSE /\ workouts' = TitleUpdate(view.id, Trim(title))
            /\ IF outcome = "deleteError"
               THEN UNCHANGED <<exercises, view>>
               ELSE IF outcome = "exercisesError" \/ view.id \notin DOMAIN workouts
               THEN /\ exercises' = WithoutExercisesOf(view.id)
                    /\ UNCHANGED view
               ELSE /\ exercises' = WithoutExercisesOf(view.id)
                                        \o ExerciseInserts(view.id, exs)
                    /\ view' = Route("workouts", 0)
    /\ navState' = IF view' = view THEN navState ELSE NoNav
    /\ UNCHANGED <<now, sessVars, finishReq, dashVars, foodVars, apiCall, profileVars, auxVars>>
    /\ thrown' = IF Trim(title) = <<>> \/ Len(exs) = 0 \/ outcome = "ok" THEN ""
                 ELSE (IF outcome = "workoutError" THEN "workouts.update"
                  ELSE IF outcome = "deleteError" THEN "exercises.delete"
                  ELSE "exercises.insert")
    /\ logged' = IF Trim(title) = <<>> \/ Len(exs) = 0 \/ outcome = "ok" THEN ""
                 ELSE "Error saving workout:"
    /\ alert' = IF Trim(title) = <<>> \/ Len(exs) = 0
                THEN "Please add a title and at least one exercise"
                ELSE IF outcome = "ok" THEN ""
                ELSE "Error saving workout. Please try again."

\* EditWorkout.handleSaveWorkout in a tab whose form shows workout id and
\* holds title and exs: the form is valid, and the update of the title is
\* sent and answered
handleSaveWorkout_TitleUpdated(tab, id, title, exs) ==
    /\ editSaves[tab].pc = "idle"
    /\ id \in DOMAIN workouts
    /\ workouts[id].user_id = User
    /\ Trim(title) # <<>>
    /\ Len(exs) # 0
    /\ workouts' = TitleUpdate(id, Trim(title))
    /\ editSaves' = [editSaves EXCEPT ![tab] =
                        [pc |-> "titleUpdated", id |-> id, title |-> Trim(title),
                         exercises |-> exs]]
    /\ UNCHANGED <<now, view, exercises, sessVars, finishReq, navState, dashVars,
                   foodVars, apiCall, profileVars, foodFetches, idLimit>>
    /\ thrown' = ""
    /\ logged' = ""
    /\ alert' = ""

\* the same handler one await on: the delete of the workout's exercises is
\* sent and answered
handleSaveWorkout_ExercisesDeleted(tab) ==
    /\ editSaves[tab].pc = "titleUpdated"
    /\ exercises' = WithoutExercisesOf(editSaves[tab].id)
    /\ editSaves' = [editSaves EXCEPT ![tab].pc = "exercisesDeleted"]
    /\ UNCHANGED <<now, view, workouts, sessVars, finishReq, navState, dashVars,
                   foodVars, apiCall, profileVars, foodFetches, idLimit>>
    /\ thrown' = ""
    /\ logged' = ""
    /\ alert' = ""

\* the same handler at its last await: the insert of the form's exercises
\* is sent and answered, and the tab navigates to /workouts; the insert
\* fails when the workout is gone
handleSaveWorkout_ExercisesInserted(tab) ==
    /\ editSaves[tab].pc = "exercisesDeleted"
    /\ IF editSaves[tab].id \in DOMAIN workouts
       THEN /\ exercises' = exercises
                    \o ExerciseInserts(editSaves[tab].id, editSaves[tab].exercises)
            /\ editSaves' = [editSaves EXCEPT ![tab].pc = "saved"]
       ELSE /\ UNCHANGED exercises
            /\ editSaves' = [editSaves EXCEPT ![tab].pc = "failed"]
    /\ UNCHANGED <<now, view, workouts, sessVars, finishReq, navState, dashVars,
                   foodVars, apiCall, profileVars, foodFetches, idLimit>>
    /\ thrown' = IF editSaves'[tab].pc = "saved" THEN "" ELSE "exercises.insert"
    /\ logged' = IF editSaves'[tab].pc = "saved" THEN "" ELSE "Error saving workout:"
    /\ alert' = IF editSaves'[tab].pc = "saved" THEN ""
                ELSE "Error saving workout. Please try again."

\* WorkoutList.handleDeleteWorkout on a listed workout (is_routine = false)
handleDeleteWorkout(workoutId, ok) ==
    /\ view.name = "workouts"
    /\ workoutId \in DOMAIN workouts
    /\ ~workouts[workoutId].is_routine
    /\ IF ok
       THEN /\ workouts' = [i \in DOMAIN workouts \ {workoutId} |-> workouts[i]]
            /\ exercises' = WithoutExercisesOf(workoutId)
       ELSE UNCHANGED <<workouts, exercises>>
    /\ UNCHANGED <<now, view, sessVars, finishReq, navState, dashVars, foodVars, apiCall, profileVars, auxVars>>
    /\ thrown' = IF ok THEN "" ELSE "workouts.delete"
    /\ logged' = IF ok THEN "" ELSE "Error deleting workout:"
    /\ alert' = IF ok THEN "" ELSE "Error deleting workout. Please try again."

\* handleUseRoutine, were the new row inserted as a routine
handleUseRoutine_AsRoutine(routineId, outcome) ==
    /\ view.name = "routines"
    /\ routineId \in DOMAIN workouts
    /\ workouts[routineId].is_routine
    /\ FreeIds # {}
    /\ IF outcome = "workoutError"
       THEN UNCHANGED <<dbVars, view, sessVars>>
       ELSE /\ workouts' = workouts @@
                  (NewId :> NewWorkoutRow(workouts[routineId].title, TRUE))
            /\ IF outcome = "exercisesError"
               THEN UNCHANGED <<exercises, view, sessVars>>
               ELSE /\ exercises' = exercises
                                        \o ExerciseInserts(NewId, ExercisesOf(routineId))
                    /\ view' = Route("session", NewId)
                    /\ sWorkout' = [id |-> NewId, title |-> workouts[routineId].title,
                                    exercises |-> ExercisesOf(routineId)]
                    /\ UNCHANGED <<isRunning, startTime, elapsedTime, saving, histVars>>
    /\ navState' = IF view' = view THEN navState ELSE NoNav
    /\ UNCHANGED <<now, finishReq, dashVars, foodVars, apiCall, profileVars, auxVars>>
    /\ thrown' = IF outcome = "ok" THEN ""
                 ELSE IF outcome = "workoutError" THEN "workouts.insert"
                 ELSE "exercises.insert"
    /\ logged' = IF outcome = "ok" THEN "" ELSE "Error creating workout from routine:"
    /\ alert' = IF outcome = "ok" THEN ""
                ELSE "Error starting workout. Please try again."

\* RoutineList.handleUseRoutine on a listed routine (is_routine = true); on
\* success window.location.href loads the session of the new workout
handleUseRoutine(routineId, outcome) ==
    /\ view.name = "routines"
    /\ routineId \in DOMAIN workouts
    /\ workouts[routineId].is_routine
    /\ FreeIds # {}
    /\ IF outcome = "workoutError"
       THEN UNCHANGED <<dbVars, view, sessVars>>
       ELSE /\ workouts' = workouts @@
                  (NewId :> NewWorkoutRow(workouts[routineId].title, FALSE))
            /\ IF outcome = "exercisesError"
               THEN UNCHANGED <<exercises, view, sessVars>>
               ELSE /\ exercises' = exercises
                                        \o ExerciseInserts(NewId, ExercisesOf(routineId))
                    /\ view' = Route("session", NewId)
                    /\ sWorkout' = [id |-> NewId, title |-> workouts[routineId].title,
                                    exercises |-> ExercisesOf(routineId)]
                    /\ UNCHANGED <<isRunning, startTime, elapsedTime, saving, histVars>>
    /\ navState' = IF view' = view THEN navState ELSE NoNav
    /\ UNCHANGED <<now, finishReq, dashVars, foodVars, apiCall, profileVars, auxVars>>
    /\ thrown' = IF outcome = "ok" THEN ""
                 ELSE IF outcome = "workoutError" THEN "workouts.insert"
                 ELSE "exercises.insert"
    /\ logged' = IF outcome = "ok" THEN "" ELSE "Error creating workout from routine:"
    /\ alert' = IF outcome = "ok" THEN ""
                ELSE "Error starting workout. Please try again."

\* ------------------------------------------------------------------------
\* FoodTracker
\* ------------------------------------------------------------------------

\* The macro-nutrients (protein, carbs, fat: grams with one decimal) are
\* counted in tenths of a gram; calories are whole numbers.

UpperCase == <<"A", "B", "C", "D", "E", "F", "G", "H", "I", "J", "K", "L", "M", "N", "O", "P", "Q", "R", "S", "T", "U", "V", "W", "X", "Y", "Z">>

LowerCaseOf == <<"a", "b", "c", "d", "e", "f", "g", "h", "i", "j", "k", "l", "m", "n", "o", "p", "q", "r", "s", "t", "u", "v", "w", "x", "y", "z">>

\* String.prototype.toLowerCase, one character
LowerChar(c) ==
    IF \E i \in 1..Len(UpperCase) : UpperCase[i] = c
    THEN LowerCaseOf[CHOOSE i \in 1..Len(UpperCase) : UpperCase[i] = c]
    ELSE c

\* String.prototype.toLowerCase
toLowerCase(str) == [i \in 1..Len(str) |-> LowerChar(str[i])]

\* String.prototype.includes
Includes(str, part) ==
    \E i \in 0..(Len(str) - Len(part)) : SubSeq(str, i + 1, i + Len(part)) = part

\* const foodDatabase = {...}, in the order of its keys
foodDatabase ==
    <<
       [key |-> <<"a", "p", "p", "l", "e">>,
        food |-> [name |-> <<"A", "p", "p", "l", "e", " ", "(", "m", "e", "d", "i", "u", "m", ")">>,
                  calories |-> 95, protein |-> 5, carbs |-> 250, fat |-> 3]],
       [key |-> <<"b", "a", "n", "a", "n", "a">>,
        food |-> [name |-> <<"B", "a", "n", "a", "n", "a", " ", "(", "m", "e", "d", "i", "u", "m", ")">>,
                  calories |-> 105, protein |-> 13, carbs |-> 270, fat |-> 4]],
       [key |-> <<"c", "h", "i", "c", "k", "e", "n">>,
        food |-> [name |-> <<"C", "h", "i", "c", "k", "e", "n", " ", "B", "r", "e", "a", "s", "t", " ", "(", "1", "0", "0", "g", ")">>,
                  calories |-> 165, protein |-> 310, carbs |-> 0, fat |-> 36]],
       [key |-> <<"r", "i", "c", "e">>,
        food |-> [name |-> <<"W", "h", "i", "t", "e", " ", "R", "i", "c", "e", " ", "(", "1", " ", "c", "u", "p", " ", "c", "o", "o", "k", "e", "d", ")">>,
                  calories |-> 205, protein |-> 43, carbs |-> 450, fat |-> 4]],
       [key |-> <<"b", "r", "o", "c", "c", "o", "l", "i">>,
        food |-> [name |-> <<"B", "r", "o", "c", "c", "o", "l", "i", " ", "(", "1", " ", "c", "u", "p", ")">>,
                  calories |-> 25, protein |-> 30, carbs |-> 50, fat |-> 3]],
       [key |-> <<"e", "g", "g">>,
        food |-> [name |-> <<"E", "g", "g", " ", "(", "l", "a", "r", "g", "e", ")">>,
                  calories |-> 70, protein |-> 60, carbs |-> 6, fat |-> 50]],
       [key |-> <<"s", "a", "l", "m", "o", "n">>,
        food |-> [name |-> <<"S", "a", "l", "m", "o", "n", " ", "(", "1", "0", "0", "g", ")">>,
                  calories |-> 208, protein |-> 220, carbs |-> 0, fat |-> 130]],
       [key |-> <<"o", "a", "t", "m", "e", "a", "l">>,
        food |-> [name |-> <<"O", "a", "t", "m", "e", "a", "l", " ", "(", "1", " ", "c", "u", "p", " ", "c", "o", "o", "k", "e", "d", ")">>,
                  calories |-> 154, protein |-> 60, carbs |-> 280, fat |-> 30]],
       [key |-> <<"a", "v", "o", "c", "a", "d", "o">>,
        food |-> [name |-> <<"A", "v", "o", "c", "a", "d", "o", " ", "(", "h", "a", "l", "f", ")">>,
                  calories |-> 160, protein |-> 20, carbs |-> 90, fat |-> 150]],
       [key |-> <<"y", "o", "g", "u", "r", "t">>,
        food |-> [name |-> <<"G", "r", "e", "e", "k", " ", "Y", "o", "g", "u", "r", "t", " ", "(", "1", " ", "c", "u", "p", ")">>,
                  calories |-> 130, protein |-> 230, carbs |-> 90, fat |-> 0]]
    >>

\* the generic result pushed when nothing matches, at a negative estimate
EstimatedFood_Negative(query) ==
    [name |-> query \o <<" ", "(", "e", "s", "t", "i", "m", "a", "t", "e", "d", ")">>,
     calories |-> -150, protein |-> 50, carbs |-> 200, fat |-> 60]

\* { name: `${query} (estimated)`, calories: 150, protein: 5, carbs: 20, fat: 6 }
EstimatedFood(query) ==
    [name |-> query \o <<" ", "(", "e", "s", "t", "i", "m", "a", "t", "e", "d", ")">>,
     calories |-> 150, protein |-> 50, carbs |-> 200, fat |-> 60]

\* food.name.toLowerCase() of every entry of foodDatabase
foodNamesLower ==
    [i \in 1..Len(foodDatabase) |-> toLowerCase(foodDatabase[i].food.name)]

\* the entries that Object.entries(foodDatabase).forEach pushes, from
\* position i on
RECURSIVE MatchesFrom(_, _)
MatchesFrom(i, queryLower) ==
    IF i > Len(foodDatabase) THEN <<>>
    ELSE IF \/ Includes(foodDatabase[i].key, queryLower)
            \/ Includes(foodNamesLower[i], queryLower)
         THEN <<foodDatabase[i].food>> \o MatchesFrom(i + 1, queryLower)
         ELSE MatchesFrom(i + 1, queryLower)

getMockFoodResults(query) ==
    LET matches == MatchesFrom(1, toLowerCase(query))
        results == IF Len(matches) = 0 THEN <<EstimatedFood(query)>>
                   ELSE matches
    IN Slice0(results, 5)

\* the rows of a query ordered by consumed_at descending, after one more
\* matching row is read
RECURSIVE InsertConsumed(_, _)
InsertConsumed(rows, e) ==
    IF rows = <<>> THEN <<e>>
    ELSE IF e.consumed_at > Head(rows).consumed_at THEN <<e>> \o rows
         ELSE <<Head(rows)>> \o InsertConsumed(Tail(rows), e)

RECURSIVE OrderByConsumedDesc(_)
OrderByConsumedDesc(rows) ==
    IF rows = <<>> THEN <<>>
    ELSE InsertConsumed(OrderByConsumedDesc(Tail(rows)), Head(rows))

\* .eq('user_id', user.id).gte('consumed_at', from).lt('consumed_at', to)
\* with from and to day strings, which the table reads as midnight UTC
FoodBetween(table, from, to) ==
    SelectSeq(table, LAMBDA e : /\ e.user_id = User
                                /\ e.consumed_at >= NewDate(from)
                                /\ e.consumed_at < NewDate(to))

\* the query of fetchFoodEntries for the selected date
FoodQuery(table, date) ==
    OrderByConsumedDesc(FoodBetween(table, date, Format(NewDate(date) + DayLen)))

\* id uuid PRIMARY KEY DEFAULT gen_random_uuid(): the ids that no stored row
\* and no listed entry holds
FoodFreeIds ==
    {i \in 1..(MaxFood + 1) :
        /\ \A k \in 1..Len(foodTable) : foodTable[k].id # i
        /\ \A k \in 1..Len(foodEntries) : foodEntries[k].id # i}

\* the id of the next inserted food entry
NewFoodId == CHOOSE i \in FoodFreeIds : \A j \in FoodFreeIds : i <= j

\* .insert({user_id, name, calories, protein, carbs, fat, consumed_at})
NewFoodRow(food) ==
    [id |-> NewFoodId, user_id |-> User, name |-> food.name,
     calories |-> food.calories, protein |-> food.protein,
     carbs |-> food.carbs, fat |-> food.fat, consumed_at |-> dashNow]

\* entry.protein || 0 that lets null through
OrZero_KeepsNull(x) == x

\* entry.protein || 0
OrZero(x) == IF Falsy(x) THEN 0 ELSE x

\* foodEntries.reduce((sum, entry) => sum + entry.calories, 0)
RECURSIVE totalCaloriesOf(_)
totalCaloriesOf(entries) ==
    IF entries = <<>> THEN 0
    ELSE totalCaloriesOf(SubSeq(entries, 1, Len(entries) - 1))
             + entries[Len(entries)].calories

\* foodEntries.reduce((sum, entry) => sum + (entry.protein || 0), 0)
RECURSIVE totalProteinOf(_)
totalProteinOf(entries) ==
    IF entries = <<>> THEN 0
    ELSE totalProteinOf(SubSeq(entries, 1, Len(entries) - 1))
             + OrZero(entries[Len(entries)].protein)

\* foodEntries.reduce((sum, entry) => sum + (entry.carbs || 0), 0)
RECURSIVE totalCarbsOf(_)
totalCarbsOf(entries) ==
    IF entries = <<>> THEN 0
    ELSE totalCarbsOf(SubSeq(entries, 1, Len(entries) - 1))
             + OrZero(entries[Len(entries)].carbs)

\* foodEntries.reduce((sum, entry) => sum + (entry.fat || 0), 0)
RECURSIVE totalFatOf(_)
totalFatOf(entries) ==
    IF entries = <<>> THEN 0
    ELSE totalFatOf(SubSeq(entries, 1, Len(entries) - 1))
             + OrZero(entries[Len(entries)].fat)

\* the totals of the daily summary
totalCalories == totalCaloriesOf(foodEntries)
totalProtein == totalProteinOf(foodEntries)
totalCarbs == totalCarbsOf(foodEntries)
totalFat == totalFatOf(foodEntries)

\* the state a FoodTracker component starts with before its first render
FoodFresh ==
    /\ foodEntries' = <<>>
    /\ foodLoading' = TRUE
    /\ selectedDate' = Null
    /\ searchQuery' = <<>>
    /\ searchResults' = <<>>

\* A row stored for the user from elsewhere (another device, an import):
\* protein, carbs and fat are nullable columns.
StoreFoodEntry(t) ==
    /\ view.name = "workouts"
    /\ Len(foodTable) < MaxFood
    /\ FoodFreeIds # {}
    /\ foodTable' = Append(foodTable,
           [id |-> NewFoodId, user_id |-> User, name |-> <<"T", "e", "a">>,
            calories |-> 2, protein |-> Null, carbs |-> 5, fat |-> Null,
            consumed_at |-> t])
    /\ thrown' = ""
    /\ logged' = ""
    /\ alert' = ""
    /\ UNCHANGED <<foodEntries, foodLoading, selectedDate, searchQuery,
                   searchResults>>
    /\ UNCHANGED <<dashVars, view, now, dbVars, sessVars, finishReq, navState,
                   apiCall, profileVars, auxVars>>

\* <Route path="/food">: FoodTracker is mounted with today selected and its
\* effect runs fetchFoodEntries.
MountFoodTracker(ok) ==
    /\ view.name = "workouts"
    /\ view' = Route("food", 0)
    /\ navState' = NoNav
    /\ selectedDate' = Format(dashNow)
    /\ foodEntries' = IF ok THEN FoodQuery(foodTable, selectedDate') ELSE <<>>
    /\ foodLoading' = FALSE
    /\ thrown' = IF ok THEN "" ELSE "food_entries.select"
    /\ logged' = IF ok THEN "" ELSE "Error fetching food entries:"
    /\ alert' = ""
    /\ UNCHANGED <<foodTable, searchQuery, searchResults>>
    /\ UNCHANGED <<dashVars, now, dbVars, sessVars, finishReq, apiCall, profileVars, auxVars>>

\* the date selector: setSelectedDate, after which the effect runs
\* fetchFoodEntries for the new date
setSelectedDate(date, ok) ==
    /\ view.name = "food"
    /\ date # selectedDate
    /\ selectedDate' = date
    /\ foodEntries' = IF ok THEN FoodQuery(foodTable, date) ELSE foodEntries
    /\ foodLoading' = FALSE
    /\ thrown' = IF ok THEN "" ELSE "food_entries.select"
    /\ logged' = IF ok THEN "" ELSE "Error fetching food entries:"
    /\ alert' = ""
    /\ UNCHANGED <<foodTable, searchQuery, searchResults>>
    /\ UNCHANGED <<dashVars, view, now, dbVars, sessVars, finishReq, navState,
                   apiCall, profileVars, auxVars>>

\* the search field: setSearchQuery
setSearchQuery(query) ==
    /\ view.name = "food"
    /\ query # searchQuery
    /\ searchQuery' = query
    /\ thrown' = ""
    /\ logged' = ""
    /\ alert' = ""
    /\ UNCHANGED <<foodTable, foodEntries, foodLoading, selectedDate,
                   searchResults>>
    /\ UNCHANGED <<dashVars, view, now, dbVars, sessVars, finishReq, navState,
                   apiCall, profileVars, auxVars>>

\* the search button or the Enter key
searchFood ==
    /\ view.name = "food"
    /\ IF Trim(searchQuery) = <<>>
       THEN UNCHANGED searchResults
       ELSE searchResults' = getMockFoodResults(searchQuery)
    /\ thrown' = ""
    /\ logged' = ""
    /\ alert' = ""
    /\ UNCHANGED <<foodTable, foodEntries, foodLoading, selectedDate,
                   searchQuery>>
    /\ UNCHANGED <<dashVars, view, now, dbVars, sessVars, finishReq, navState,
                   apiCall, profileVars, auxVars>>

\* the "+" button of the search result at position index; on success the
\* search is cleared and fetchFoodEntries runs
addFoodEntry(index, ok, fetchOk) ==
    /\ view.name = "food"
    /\ index \in 1..Len(searchResults)
    /\ Len(foodTable) < MaxFood
    /\ FoodFreeIds # {}
    /\ IF ok
       THEN /\ foodTable' = Append(foodTable, NewFoodRow(searchResults[index]))
            /\ searchQuery' = <<>>
            /\ searchResults' = <<>>
            /\ foodEntries' = IF fetchOk THEN FoodQuery(foodTable', selectedDate)
                              ELSE foodEntries
            /\ alert' = ""
            /\ thrown' = IF fetchOk THEN "" ELSE "food_entries.select"
            /\ logged' = IF fetchOk THEN "" ELSE "Error fetching food entries:"
       ELSE /\ fetchOk
            /\ alert' = "Error adding food entry. Please try again."
            /\ thrown' = "food_entries.insert"
            /\ logged' = "Error adding food entry:"
            /\ UNCHANGED <<foodTable, searchQuery, searchResults, foodEntries>>
    /\ UNCHANGED <<foodLoading, selectedDate>>
    /\ UNCHANGED <<dashVars, view, now, dbVars, sessVars, finishReq, navState,
                   apiCall, profileVars, auxVars>>

\* the "x" button of the listed entry at position index; on success
\* fetchFoodEntries runs
removeFoodEntry(index, ok, fetchOk) ==
    /\ view.name = "food"
    /\ index \in 1..Len(foodEntries)
    /\ IF ok
       THEN /\ foodTable' = SelectSeq(foodTable,
                                LAMBDA e : e.id # foodEntries[index].id)
            /\ foodEntries' = IF fetchOk THEN FoodQuery(foodTable', selectedDate)
                              ELSE foodEntries
       ELSE /\ fetchOk
            /\ UNCHANGED <<foodTable, foodEntries>>
    /\ thrown' = IF ~ok THEN "food_entries.delete"
                 ELSE IF fetchOk THEN "" ELSE "food_entries.select"
    /\ logged' = IF ~ok THEN "Error removing food entry:"
                 ELSE IF fetchOk THEN "" ELSE "Error fetching food entries:"
    /\ alert' = ""
    /\ UNCHANGED <<foodLoading, selectedDate, searchQuery, searchResults>>
    /\ UNCHANGED <<dashVars, view, now, dbVars, sessVars, finishReq, navState,
                   apiCall, profileVars, auxVars>>

\* fetchFoodEntries as called while date is selected: the request is
\* answered from the table as it is, and the answer is on its way
fetchFoodEntries(table, date) ==
    foodFetches \cup {[data |-> FoodQuery(table, date)]}

\* the date selector: setSelectedDate, after which the effect calls
\* fetchFoodEntries for the new date; its answer is not awaited
onDateChange(date) ==
    /\ view.name = "food"
    /\ date # selectedDate
    /\ Cardinality(foodFetches) < MaxFetches
    /\ selectedDate' = date
    /\ foodFetches' = fetchFoodEntries(foodTable, date)
    /\ thrown' = ""
    /\ logged' = ""
    /\ alert' = ""
    /\ UNCHANGED <<foodTable, foodEntries, foodLoading, searchQuery, searchResults>>
    /\ UNCHANGED <<dashVars, view, now, dbVars, sessVars, finishReq, navState,
                   apiCall, profileVars, editSaves, idLimit>>

\* addFoodEntry whose insert succeeds: the search is cleared and
\* fetchFoodEntries is called, its answer not awaited
addFoodEntry_Inserted(index) ==
    /\ view.name = "food"
    /\ index \in 1..Len(searchResults)
    /\ Len(foodTable) < MaxFood
    /\ FoodFreeIds # {}
    /\ Cardinality(foodFetches) < MaxFetches
    /\ foodTable' = Append(foodTable, NewFoodRow(searchResults[index]))
    /\ searchQuery' = <<>>
    /\ searchResults' = <<>>
    /\ foodFetches' = fetchFoodEntries(foodTable', selectedDate)
    /\ thrown' = ""
    /\ logged' = ""
    /\ alert' = ""
    /\ UNCHANGED <<foodEntries, foodLoading, selectedDate>>
    /\ UNCHANGED <<dashVars, view, now, dbVars, sessVars, finishReq, navState,
                   apiCall, profileVars, editSaves, idLimit>>

\* removeFoodEntry whose delete succeeds: fetchFoodEntries is called, its
\* answer not awaited
removeFoodEntry_Deleted(index) ==
    /\ view.name = "food"
    /\ index \in 1..Len(foodEntries)
    /\ Cardinality(foodFetches) < MaxFetches
    /\ foodTable' = SelectSeq(foodTable, LAMBDA e : e.id # foodEntries[index].id)
    /\ foodFetches' = fetchFoodEntries(foodTable', selectedDate)
    /\ thrown' = ""
    /\ logged' = ""
    /\ alert' = ""
    /\ UNCHANGED <<foodEntries, foodLoading, selectedDate, searchQuery, searchResults>>
    /\ UNCHANGED <<dashVars, view, now, dbVars, sessVars, finishReq, navState,
                   apiCall, profileVars, editSaves, idLimit>>

\* an answer of fetchFoodEntries arrives, whichever of those on their way:
\* setFoodEntries(data || []) and setLoading(false)
fetchFoodEntries_Answered ==
    /\ view.name = "food"
    /\ \E fetch \in foodFetches :
          /\ foodEntries' = fetch.data
          /\ foodFetches' = foodFetches \ {fetch}
    /\ foodLoading' = FALSE
    /\ thrown' = ""
    /\ logged' = ""
    /\ alert' = ""
    /\ UNCHANGED <<foodTable, selectedDate, searchQuery, searchResults>>
    /\ UNCHANGED <<dashVars, view, now, dbVars, sessVars, finishReq, navState,
                   apiCall, profileVars, editSaves, idLimit>>

\* The user leaves the food tracker: its component state is dropped.
LeaveFoodTracker ==
    /\ view.name = "food"
    /\ view' = Route("workouts", 0)
    /\ FoodFresh
    /\ thrown' = ""
    /\ logged' = ""
    /\ alert' = ""
    /\ UNCHANGED <<foodTable, dashVars, now, dbVars, sessVars, finishReq,
                   navState, apiCall, profileVars, auxVars>>

\* ------------------------------------------------------------------------
\* Dashboard
\* ------------------------------------------------------------------------

\* useState<DashboardStats>({currentStreak: 0, totalWorkouts: 0, ...})
InitStats ==
    [currentStreak |-> 0, totalWorkouts |-> 0, totalCalories |-> 0,
     recentWorkouts |-> <<>>]

\* the food entries query of fetchDashboardData:
\* .gte('consumed_at', today).lt('consumed_at', format(Date.now() + 86400000))
TodaysFood(table) ==
    FoodBetween(table, Format(dashNow), Format(dashNow + DayLen))

\* the rows of a query ordered by completed_at descending, after one more
\* completed row is stored
RECURSIVE InsertCompleted(_, _)
InsertCompleted(s, t) ==
    IF s = <<>> THEN <<t>>
    ELSE IF t >= Head(s) THEN <<t>> \o s
         ELSE <<Head(s)>> \o InsertCompleted(Tail(s), t)

DashInit ==
    /\ tz \in TzOffsets
    /\ dashNow \in Instants
    /\ completedAts = <<>>
    /\ dashLoading = TRUE
    /\ dashWorkouts = <<>>
    /\ stats = InitStats
    /\ ClientInit

\* A workout of the user is stored as completed at instant t: the row a
\* finished session leaves behind.  Sessions run on another route than the
\* dashboard.
StoreCompleted(t) ==
    /\ view.name # "dashboard"
    /\ Len(completedAts) < MaxCompleted
    /\ completedAts' = InsertCompleted(completedAts, t)
    /\ UNCHANGED <<tz, dashNow, view, dashLoading, dashWorkouts, stats>>
    /\ UNCHANGED <<now, dbVars, sessVars, finishReq, navState, foodVars, apiCall, profileVars, auxVars>>
    /\ thrown' = ""
    /\ logged' = ""
    /\ alert' = ""

\* <Route path="/">: the dashboard is mounted, a fresh component that is
\* loading.
MountDashboard ==
    /\ view.name # "dashboard"
    /\ view' = Route("dashboard", 0)
    /\ dashLoading' = TRUE
    /\ dashWorkouts' = <<>>
    /\ stats' = InitStats
    /\ UNCHANGED <<tz, dashNow, completedAts>>
    /\ UNCHANGED <<now, dbVars, sessVars, finishReq, navState, foodVars, apiCall, profileVars, auxVars>>
    /\ thrown' = ""
    /\ logged' = ""
    /\ alert' = ""

\* fetchDashboardData: the completed rows arrive, newest first, and the
\* food entries of today; a query that fails yields data = null, which the
\* code reads as no rows.
FetchDashboardData(workoutsOk, foodOk) ==
    /\ view.name = "dashboard"
    /\ dashLoading
    /\ dashWorkouts' = IF workoutsOk THEN completedAts ELSE <<>>
    /\ stats' = [currentStreak |-> calculateStreak(dashWorkouts'),
                 totalWorkouts |-> Len(dashWorkouts'),
                 totalCalories |-> IF foodOk
                                   THEN totalCaloriesOf(TodaysFood(foodTable))
                                   ELSE 0,
                 recentWorkouts |-> Slice0(dashWorkouts', RecentLen)]
    /\ dashLoading' = FALSE
    /\ UNCHANGED <<tz, dashNow, completedAts, view>>
    /\ UNCHANGED <<now, dbVars, sessVars, finishReq, navState, foodVars, apiCall, profileVars, auxVars>>
    /\ thrown' = ""
    /\ logged' = ""
    /\ alert' = ""

\* The user leaves the dashboard: its component state is dropped.
LeaveDashboard ==
    /\ view.name = "dashboard"
    /\ ~dashLoading
    /\ view' = Route("workouts", 0)
    /\ dashLoading' = TRUE
    /\ dashWorkouts' = <<>>
    /\ stats' = InitStats
    /\ UNCHANGED <<tz, dashNow, completedAts>>
    /\ UNCHANGED <<now, dbVars, sessVars, finishReq, navState, foodVars, apiCall, profileVars, auxVars>>
    /\ thrown' = ""
    /\ logged' = ""
    /\ alert' = ""

DashNext ==
    \/ \E t \in Instants : StoreCompleted(t)
    \/ MountDashboard
    \/ \E workoutsOk \in BOOLEAN : FetchDashboardData(workoutsOk, TRUE)
    \/ LeaveDashboard

DashSpec == DashInit /\ [][DashNext]_vars

\* the rows of the "This Week" card under a test that includes the day
\* WeekLen days back
ThisWeekRows_Inclusive ==
    {i \in 1..Len(stats.recentWorkouts) :
        differenceInDays(dashNow, stats.recentWorkouts[i]) <= WeekLen}

\* stats.recentWorkouts.filter(w =>
\*     differenceInDays(new Date(), parseISO(w.completed_at)) < 7)
ThisWeekRows ==
    {i \in 1..Len(stats.recentWorkouts) :
        differenceInDays(dashNow, stats.recentWorkouts[i]) < WeekLen}

\* the value of the "This Week" card: the length of the filtered list
ThisWeek == Cardinality(ThisWeekRows)

\* The dashboard at the end of a week whose completions fall a week back,
\* six days back, or on the day itself.
WeekInit ==
    /\ tz \in TzOffsets
    /\ dashNow \in WeekNows
    /\ completedAts = <<>>
    /\ dashLoading = TRUE
    /\ dashWorkouts = <<>>
    /\ stats = InitStats
    /\ ClientInit

\* A workout of the user is stored as completed at instant t, no later
\* than the instant at which the dashboard is looked at.
StoreRecent(t) ==
    /\ view.name # "dashboard"
    /\ t <= dashNow
    /\ Len(completedAts) < MaxRecent
    /\ completedAts' = InsertCompleted(completedAts, t)
    /\ UNCHANGED <<tz, dashNow, view, dashLoading, dashWorkouts, stats>>
    /\ UNCHANGED <<now, dbVars, sessVars, finishReq, navState, foodVars, apiCall, profileVars, auxVars>>
    /\ thrown' = ""
    /\ logged' = ""
    /\ alert' = ""

WeekNext ==
    \/ \E t \in WeekInstants : StoreRecent(t)
    \/ MountDashboard
    \/ \E workoutsOk \in BOOLEAN : FetchDashboardData(workoutsOk, TRUE)
    \/ LeaveDashboard

WeekSpec == WeekInit /\ [][WeekNext]_vars

\* ------------------------------------------------------------------------
\* FoodTracker and Dashboard together
\* ------------------------------------------------------------------------

\* The food tracker and the calories of the dashboard on one of the days
\* the tracker may be used.
FoodInit ==
    /\ tz \in TzOffsets
    /\ dashNow \in FoodNows
    /\ completedAts = <<>>
    /\ dashLoading = TRUE
    /\ dashWorkouts = <<>>
    /\ stats = InitStats
    /\ ClientInit

FoodNext ==
    \/ \E t \in FoodInstants : StoreFoodEntry(t)
    \/ \E ok \in BOOLEAN : MountFoodTracker(ok)
    \/ \E date \in FoodDays, ok \in BOOLEAN : setSelectedDate(date, ok)
    \/ \E query \in QueryInputs : setSearchQuery(query)
    \/ searchFood
    \/ \E index \in 1..5, ok \in BOOLEAN : addFoodEntry(index, ok, TRUE)
    \/ \E index \in 1..MaxFood, ok \in BOOLEAN : removeFoodEntry(index, ok, TRUE)
    \/ LeaveFoodTracker
    \/ (view.name = "workouts" /\ MountDashboard)
    \/ \E foodOk \in BOOLEAN : FetchDashboardData(TRUE, foodOk)
    \/ LeaveDashboard

FoodSpec == FoodInit /\ [][FoodNext]_vars

\* ------------------------------------------------------------------------
\* Row level security: requests made of the database directly
\* ------------------------------------------------------------------------

\* Any authenticated user may send any request with the public API key; the
\* policies of the tables decide what it reads and writes.  uid is auth.uid().

\* the authenticated users
Users == {User, OtherUser}

\* the policy of exercises, were the owner of the workout not compared
ExercisesPolicy_AnyWorkout(uid, row, table) ==
    \E id \in DOMAIN table : id = row.workout_id

\* workouts: USING / WITH CHECK (auth.uid() = user_id)
WorkoutsPolicy(uid, row) == uid = row.user_id

\* exercises: USING / WITH CHECK (EXISTS (SELECT 1 FROM workouts WHERE
\* workouts.id = exercises.workout_id AND workouts.user_id = auth.uid()));
\* the subquery reads the workouts of table
ExercisesPolicy(uid, row, table) ==
    \E id \in DOMAIN table :
        id = row.workout_id /\ table[id].user_id = uid

\* food_entries: USING / WITH CHECK (auth.uid() = user_id)
FoodEntriesPolicy(uid, row) == uid = row.user_id

\* the tables of workouts and exercises, and the table of food entries, share
\* no policy: a behaviour makes its requests of one of the two
TablesInUse(table) ==
    IF table = "food_entries"
    THEN DOMAIN workouts = {} /\ exercises = <<>>
    ELSE foodTable = <<>>

\* the request uid made, and the rows it was answered with
Call(uid, table, op, target, rows) ==
    /\ apiCall' = [user |-> uid, table |-> table, op |-> op, target |-> target,
                   rows |-> rows]
    /\ UNCHANGED <<now, view, sessVars, finishReq, navState, dashVars,
                   foodEntries, foodLoading, selectedDate, searchQuery,
                   searchResults, profileVars, auxVars>>
    /\ thrown' = ""
    /\ logged' = ""
    /\ alert' = ""

\* the rows of a sequence
Rows(table) == {table[i] : i \in 1..Len(table)}

\* from(table).select('*')
ApiSelect(uid, table) ==
    /\ TablesInUse(table)
    /\ Call(uid, table, "select", 0,
            CASE table = "workouts" ->
                   {workouts[id] : id \in {i \in DOMAIN workouts :
                                              WorkoutsPolicy(uid, workouts[i])}}
              [] table = "exercises" ->
                   {r \in Rows(exercises) : ExercisesPolicy(uid, r, workouts)}
              [] table = "food_entries" ->
                   {r \in Rows(foodTable) : FoodEntriesPolicy(uid, r)})
    /\ UNCHANGED <<dbVars, foodTable>>

\* from('workouts').insert({user_id: owner, title})
ApiInsertWorkout(uid, owner) ==
    LET row == [NewWorkoutRow(<<"A">>, FALSE) EXCEPT !.user_id = owner]
    IN /\ TablesInUse("workouts")
       /\ FreeIds # {}
       /\ workouts' = IF WorkoutsPolicy(uid, row)
                      THEN workouts @@ (NewId :> row) ELSE workouts
       /\ Call(uid, "workouts", "insert", 0, {})
       /\ UNCHANGED <<exercises, foodTable>>

\* from('workouts').update({user_id: owner, title}).eq('id', id)
ApiUpdateWorkout(uid, id, owner) ==
    LET row == [workouts[id] EXCEPT !.user_id = owner, !.title = <<"B">>]
    IN /\ TablesInUse("workouts")
       /\ id \in DOMAIN workouts
       /\ workouts' = IF WorkoutsPolicy(uid, workouts[id]) /\ WorkoutsPolicy(uid, row)
                      THEN [workouts EXCEPT ![id] = row] ELSE workouts
       /\ Call(uid, "workouts", "update", id, {})
       /\ UNCHANGED <<exercises, foodTable>>

\* from('workouts').delete().eq('id', id)
ApiDeleteWorkout(uid, id) ==
    /\ TablesInUse("workouts")
    /\ id \in DOMAIN workouts
    /\ IF WorkoutsPolicy(uid, workouts[id])
       THEN /\ workouts' = [i \in DOMAIN workouts \ {id} |-> workouts[i]]
            /\ exercises' = WithoutExercisesOf(id)
       ELSE UNCHANGED <<workouts, exercises>>
    /\ Call(uid, "workouts", "delete", id, {})
    /\ UNCHANGED foodTable

\* from('exercises').insert({workout_id, name, sets, reps, weight})
ApiInsertExercise(uid, workoutId) ==
    LET row == ExerciseInserts(workoutId, <<Ex1>>)[1]
    IN /\ TablesInUse("exercises")
       /\ Len(exercises) < MaxRows
       /\ workoutId \in DOMAIN workouts
       /\ exercises' = IF ExercisesPolicy(uid, row, workouts)
                       THEN Append(exercises, row) ELSE exercises
       /\ Call(uid, "exercises", "insert", workoutId, {})
       /\ UNCHANGED <<workouts, foodTable>>

\* from('exercises').update({workout_id}).eq('id', <the id of row i>)
ApiUpdateExercise(uid, i, workoutId) ==
    /\ TablesInUse("exercises")
    /\ i \in 1..Len(exercises)
    /\ workoutId \in DOMAIN workouts
    /\ LET row == [exercises[i] EXCEPT !.workout_id = workoutId]
       IN exercises' = IF /\ ExercisesPolicy(uid, exercises[i], workouts)
                          /\ ExercisesPolicy(uid, row, workouts)
                       THEN [exercises EXCEPT ![i] = row] ELSE exercises
    /\ Call(uid, "exercises", "update", i, {})
    /\ UNCHANGED <<workouts, foodTable>>

\* the sequence without its i-th row
RemoveAt(table, i) == SubSeq(table, 1, i - 1) \o SubSeq(table, i + 1, Len(table))

\* from('exercises').delete().eq('id', <the id of row i>)
ApiDeleteExercise(uid, i) ==
    /\ TablesInUse("exercises")
    /\ i \in 1..Len(exercises)
    /\ exercises' = IF ExercisesPolicy(uid, exercises[i], workouts)
                    THEN RemoveAt(exercises, i) ELSE exercises
    /\ Call(uid, "exercises", "delete", i, {})
    /\ UNCHANGED <<workouts, foodTable>>

\* from('food_entries').insert({user_id: owner, name, calories, ...})
ApiInsertFood(uid, owner) ==
    LET row == [NewFoodRow([name |-> <<"T", "e", "a">>, calories |-> 2,
                            protein |-> Null, carbs |-> 5, fat |-> Null])
                   EXCEPT !.user_id = owner]
    IN /\ TablesInUse("food_entries")
       /\ Len(foodTable) < MaxFood
       /\ FoodFreeIds # {}
       /\ foodTable' = IF FoodEntriesPolicy(uid, row)
                       THEN Append(foodTable, row) ELSE foodTable
       /\ Call(uid, "food_entries", "insert", 0, {})
       /\ UNCHANGED dbVars

\* from('food_entries').update({user_id: owner, calories}).eq('id', <id of row i>)
ApiUpdateFood(uid, i, owner) ==
    /\ TablesInUse("food_entries")
    /\ i \in 1..Len(foodTable)
    /\ LET row == [foodTable[i] EXCEPT !.user_id = owner, !.calories = 7]
       IN foodTable' = IF /\ FoodEntriesPolicy(uid, foodTable[i])
                          /\ FoodEntriesPolicy(uid, row)
                       THEN [foodTable EXCEPT ![i] = row] ELSE foodTable
    /\ Call(uid, "food_entries", "update", foodTable[i].id, {})
    /\ UNCHANGED dbVars

\* from('food_entries').delete().eq('id', <id of row i>)
ApiDeleteFood(uid, i) ==
    /\ TablesInUse("food_entries")
    /\ i \in 1..Len(foodTable)
    /\ foodTable' = IF FoodEntriesPolicy(uid, foodTable[i])
                    THEN RemoveAt(foodTable, i) ELSE foodTable
    /\ Call(uid, "food_entries", "delete", foodTable[i].id, {})
    /\ UNCHANGED dbVars

\* ------------------------------------------------------------------------
\* Profiles: sign-up and the policies the migrations leave on the table
\* ------------------------------------------------------------------------

\* the ids a user of the database may have
UserIds == {User, OtherUser, NewUser}

\* CREATE POLICY "Users can insert own profile" ... WITH CHECK (auth.uid() = id)
InsertOwnProfile ==
    [name |-> "Users can insert own profile", roles |-> {"authenticated"},
     check |-> "auth.uid() = id"]

\* CREATE POLICY "Allow profile creation during signup" ... WITH CHECK (true)
ProfileCreationDuringSignup(roles) ==
    [name |-> "Allow profile creation during signup", roles |-> roles,
     check |-> "true"]

\* DROP POLICY IF EXISTS name ON profiles
DropPolicy(policies, name) == {p \in policies : p.name # name}

\* CREATE POLICY: a policy of that name must not exist yet
CreatePolicy(policies, policy) ==
    IF \E p \in policies : p.name = policy.name
    THEN policies
    ELSE policies \cup {policy}

\* the INSERT policies of profiles after 20250629025447_shrill_coral.sql
shrill_coral(policies) ==
    LET created == CreatePolicy(policies, InsertOwnProfile)
        dropped == DropPolicy(DropPolicy(created,
                       "Allow profile creation during signup"),
                       "Users can insert own profile")
    IN CreatePolicy(CreatePolicy(dropped, InsertOwnProfile),
                    ProfileCreationDuringSignup({"anon", "authenticated"}))

\* ... after 20250629025828_graceful_valley.sql
graceful_valley(policies) ==
    CreatePolicy(DropPolicy(policies, "Users can insert own profile"),
                 InsertOwnProfile)

\* ... after 20250629025949_light_tower.sql
light_tower(policies) ==
    CreatePolicy(CreatePolicy(DropPolicy(policies, "Users can insert own profile"),
                              InsertOwnProfile),
                 ProfileCreationDuringSignup({"anon"}))

\* ... after 20250629033336_warm_coral.sql
warm_coral(policies) ==
    LET dropped == DropPolicy(DropPolicy(policies,
                       "Allow profile creation during signup"),
                       "Users can insert own profile")
    IN CreatePolicy(CreatePolicy(dropped, InsertOwnProfile),
                    ProfileCreationDuringSignup({"anon", "authenticated"}))

\* the INSERT policies of profiles once the migrations are applied in the
\* order of their timestamps
ProfilesInsertPolicies ==
    warm_coral(light_tower(graceful_valley(shrill_coral({}))))

\* the role a request is made with
RoleOf(caller) == IF caller = Anon THEN "anon" ELSE "authenticated"

\* the permissive policies of a command are combined with OR; auth.uid() is
\* null for anon and equals no id
ProfilesInsertCheck(caller, id) ==
    \E p \in ProfilesInsertPolicies :
        /\ RoleOf(caller) \in p.roles
        /\ p.check = "true" \/ caller = id

\* "Users can update own profile": USING / WITH CHECK (auth.uid() = id)
ProfilesUpdatePolicy(caller, id) == RoleOf(caller) = "authenticated" /\ caller = id

\* email text UNIQUE NOT NULL
EmailTaken(email) == \E id \in DOMAIN profiles : profiles[id].email = email

\* auth.signUp: the row of auth.users is inserted and the trigger
\* on_auth_user_created runs handle_new_user, which inserts the profile and
\* swallows every error of that insert
SignUp(u) ==
    /\ u \notin authUsers
    /\ authUsers' = authUsers \cup {u}
    /\ profiles' = IF EmailTaken(EmailOf(u)) THEN profiles
                   ELSE profiles @@ (u :> [email |-> EmailOf(u)])
    /\ apiCall' = [user |-> Anon, table |-> "auth.users", op |-> "signUp",
                   target |-> u, rows |-> {}]
    /\ UNCHANGED <<now, view, sessVars, finishReq, navState, dashVars, dbVars,
                   foodVars, auxVars>>
    /\ thrown' = ""
    /\ logged' = ""
    /\ alert' = ""

\* from('profiles').insert({id, email}), by anybody who holds the API key
ApiInsertProfile(caller, id, email) ==
    /\ caller = Anon \/ caller \in authUsers
    /\ profiles' = IF /\ id \in authUsers
                      /\ id \notin DOMAIN profiles
                      /\ ~EmailTaken(email)
                      /\ ProfilesInsertCheck(caller, id)
                   THEN profiles @@ (id :> [email |-> email])
                   ELSE profiles
    /\ apiCall' = [user |-> caller, table |-> "profiles", op |-> "insert",
                   target |-> id, rows |-> {}]
    /\ UNCHANGED <<now, view, sessVars, finishReq, navState, dashVars, dbVars,
                   foodVars, authUsers, auxVars>>
    /\ thrown' = ""
    /\ logged' = ""
    /\ alert' = ""

\* from('profiles').update({email}).eq('id', id)
ApiUpdateProfile(caller, id, email) ==
    /\ caller = Anon \/ caller \in authUsers
    /\ id \in DOMAIN profiles
    /\ profiles' = IF /\ ProfilesUpdatePolicy(caller, id)
                      /\ profiles[id].email = email \/ ~EmailTaken(email)
                   THEN [profiles EXCEPT ![id].email = email]
                   ELSE profiles
    /\ apiCall' = [user |-> caller, table |-> "profiles", op |-> "update",
                   target |-> id, rows |-> {}]
    /\ UNCHANGED <<now, view, sessVars, finishReq, navState, dashVars, dbVars,
                   foodVars, authUsers, auxVars>>
    /\ thrown' = ""
    /\ logged' = ""
    /\ alert' = ""

\* ------------------------------------------------------------------------
\* Specifications
\* ------------------------------------------------------------------------

\* the ways an insert of a workout with its exercises may end
InsertOutcomes == {"ok", "workoutError", "exercisesError"}

\* the ways the title update, exercises delete and exercises insert of
\* EditWorkout may end
EditOutcomes == {"ok", "workoutError", "deleteError", "exercisesError"}

\* the ways the inserts of handleSaveAsRoutine may end
RoutineOutcomes == {"ok", "routineError", "exercisesError"}

Init ==
    /\ ClientInit
    /\ tz = 0
    /\ dashNow = 0
    /\ completedAts = <<>>
    /\ dashLoading = TRUE
    /\ dashWorkouts = <<>>
    /\ stats = InitStats

\* The session timer: workouts are created and their sessions run against
\* the clock.  The inserts of this specification succeed or fail as a whole.
Next ==
    \/ \E name \in {"workouts", "new"} : GoTo(name)
    \/ \E id \in 1..MaxRows, ok \in BOOLEAN : OpenSession(id, ok)
    \/ AdvanceClock
    \/ handleStart
    \/ handlePause
    \/ handleResume
    \/ TimerTick
    \/ handleFinish
    \/ \E ok \in BOOLEAN : FinishResponse(ok)
    \/ \E outcome \in {"ok", "routineError"} : handleSaveAsRoutine(outcome)
    \/ \E title \in TitleInputs, exs \in ExerciseInputs,
          outcome \in {"ok", "workoutError"} :
           CreateWorkout_handleSaveWorkout(title, exs, outcome)

Spec == Init /\ [][Next]_vars

\* The tables: every view that writes them, each request ending in every
\* way it may end.  Sessions are started and finished within one instant.
TablesNext ==
    \/ \E name \in {"workouts", "new", "routines"} : GoTo(name)
    \/ \E id \in 1..MaxRows, ok \in BOOLEAN : OpenSession(id, ok)
    \/ \E id \in 1..MaxRows, ok \in BOOLEAN : OpenEdit(id, ok)
    \/ handleStart
    \/ handleFinish
    \/ \E ok \in BOOLEAN : FinishResponse(ok)
    \/ \E outcome \in RoutineOutcomes : handleSaveAsRoutine(outcome)
    \/ \E title \in TitleInputs, exs \in ExerciseInputs, outcome \in InsertOutcomes :
           CreateWorkout_handleSaveWorkout(title, exs, outcome)
    \/ \E title \in TitleInputs, exs \in ExerciseInputs, outcome \in EditOutcomes :
           EditWorkout_handleSaveWorkout(title, exs, outcome)
    \/ \E id \in 1..MaxRows, ok \in BOOLEAN : handleDeleteWorkout(id, ok)
    \/ \E id \in 1..MaxRows, outcome \in InsertOutcomes : handleUseRoutine(id, outcome)

TablesSpec == Init /\ [][TablesNext]_vars

\* The rows of workouts and exercises: every handler that inserts or deletes
\* them, each request ending in every way it may end.  No session is finished.
CrudNext ==
    \/ \E name \in {"workouts", "new", "routines"} : GoTo(name)
    \/ \E id \in 1..MaxRows, ok \in BOOLEAN : OpenSession(id, ok)
    \/ \E id \in 1..MaxRows, ok \in BOOLEAN : OpenEdit(id, ok)
    \/ handleStart
    \/ \E outcome \in RoutineOutcomes : handleSaveAsRoutine(outcome)
    \/ \E title \in TitleInputs, exs \in ExerciseInputs, outcome \in InsertOutcomes :
           CreateWorkout_handleSaveWorkout(title, exs, outcome)
    \/ \E title \in EditTitleInputs, exs \in ExerciseInputs, outcome \in EditOutcomes :
           EditWorkout_handleSaveWorkout(title, exs, outcome)
    \/ \E id \in 1..MaxRows, ok \in BOOLEAN : handleDeleteWorkout(id, ok)
    \/ \E id \in 1..MaxRows, outcome \in InsertOutcomes : handleUseRoutine(id, outcome)

CrudSpec == Init /\ [][CrudNext]_vars

\* Editing: workouts are created, run, finished, saved as routines and
\* edited, the edit form holding a title of its own.
EditNext ==
    \/ \E name \in {"workouts", "new"} : GoTo(name)
    \/ \E id \in 1..MaxRows : OpenSession(id, TRUE)
    \/ \E id \in 1..MaxRows : OpenEdit(id, TRUE)
    \/ handleStart
    \/ handleFinish
    \/ FinishResponse(TRUE)
    \/ handleSaveAsRoutine("ok")
    \/ \E title \in TitleInputs, exs \in {<<>>, <<Ex2>>} :
           CreateWorkout_handleSaveWorkout(title, exs, "ok")
    \/ \E title \in EditTitleInputs, exs \in {<<>>, <<Ex2>>}, outcome \in EditOutcomes :
           EditWorkout_handleSaveWorkout(title, exs, outcome)

EditSpec == Init /\ [][EditNext]_vars

\* The forms: workouts are created and edited with the exercise typed into
\* the form, and deleted.
FormNext ==
    \/ \E name \in {"workouts", "new"} : GoTo(name)
    \/ \E id \in 1..MaxRows, ok \in BOOLEAN : OpenEdit(id, ok)
    \/ \E title \in TitleInputs, exs \in FormExerciseInputs \cup {<<>>},
          outcome \in InsertOutcomes :
           CreateWorkout_handleSaveWorkout(title, exs, outcome)
    \/ \E title \in EditTitleInputs, exs \in FormExerciseInputs \cup {<<>>},
          outcome \in EditOutcomes :
           EditWorkout_handleSaveWorkout(title, exs, outcome)
    \/ \E id \in 1..MaxRows, ok \in BOOLEAN : handleDeleteWorkout(id, ok)

FormSpec == Init /\ [][FormNext]_vars

\* The database under the requests of two users.
PolicyNext ==
    \E uid \in Users :
        \/ \E table \in {"workouts", "exercises", "food_entries"} : ApiSelect(uid, table)
        \/ \E owner \in Users : ApiInsertWorkout(uid, owner)
        \/ \E id \in 1..MaxRows, owner \in Users : ApiUpdateWorkout(uid, id, owner)
        \/ \E id \in 1..MaxRows : ApiDeleteWorkout(uid, id)
        \/ \E id \in 1..MaxRows : ApiInsertExercise(uid, id)
        \/ \E i \in 1..MaxRows, id \in 1..MaxRows : ApiUpdateExercise(uid, i, id)
        \/ \E i \in 1..MaxRows : ApiDeleteExercise(uid, i)
        \/ \E owner \in Users : ApiInsertFood(uid, owner)
        \/ \E i \in 1..MaxFood, owner \in Users : ApiUpdateFood(uid, i, owner)
        \/ \E i \in 1..MaxFood : ApiDeleteFood(uid, i)

PolicySpec == Init /\ [][PolicyNext]_vars

\* From a workout to its routine and back: workouts are created, saved as
\* routines from their sessions and started from the routine list, with
\* room for a workout, its routine and the workout started from it.  No row
\* is edited or deleted.
RoundTripInit ==
    /\ ClientStart
    /\ idLimit = MaxRows + 1
    /\ tz = 0
    /\ dashNow = 0
    /\ completedAts = <<>>
    /\ dashLoading = TRUE
    /\ dashWorkouts = <<>>
    /\ stats = InitStats

RoundTripNext ==
    \/ \E name \in {"workouts", "new", "routines"} : GoTo(name)
    \/ \E id \in 1..(MaxRows + 1) : OpenSession(id, TRUE)
    \/ handleStart
    \/ handleSaveAsRoutine("ok")
    \/ \E title \in TitleInputs \cup EditTitleInputs, exs \in ExerciseInputs,
          outcome \in InsertOutcomes :
           CreateWorkout_handleSaveWorkout(title, exs, outcome)
    \/ \E id \in 1..(MaxRows + 1), outcome \in InsertOutcomes :
           handleUseRoutine(id, outcome)

RoundTripSpec == RoundTripInit /\ [][RoundTripNext]_vars

\* The food tracker with the answers of fetchFoodEntries on their way:
\* every insert and delete succeeds, and the answers arrive in any order.
FoodRaceInit ==
    /\ tz = 0
    /\ dashNow = DayLen + 2
    /\ completedAts = <<>>
    /\ dashLoading = TRUE
    /\ dashWorkouts = <<>>
    /\ stats = InitStats
    /\ ClientInit

FoodRaceNext ==
    \/ \E t \in FoodInstants : StoreFoodEntry(t)
    \/ MountFoodTracker(TRUE)
    \/ \E date \in FoodDays : onDateChange(date)
    \/ setSearchQuery(<<"E", "A">>)
    \/ searchFood
    \/ addFoodEntry_Inserted(1)
    \/ \E index \in 1..MaxFood : removeFoodEntry_Deleted(index)
    \/ fetchFoodEntries_Answered

FoodRaceSpec == FoodRaceInit /\ [][FoodRaceNext]_vars

\* One workout edited in two tabs at once: the three requests of each save
\* succeed and are answered one by one, those of the two tabs in any order.
EditRaceNext ==
    \/ \E name \in {"workouts", "new"} : GoTo(name)
    \/ \E title \in TitleInputs, exs \in ExerciseInputs :
           CreateWorkout_handleSaveWorkout(title, exs, "ok")
    \/ \E tab \in Tabs, id \in 1..MaxRows, title \in TitleInputs \cup EditTitleInputs,
          exs \in {<<Ex1, Ex2>>, <<Ex2>>} :
           handleSaveWorkout_TitleUpdated(tab, id, title, exs)
    \/ \E tab \in Tabs : handleSaveWorkout_ExercisesDeleted(tab)
    \/ \E tab \in Tabs : handleSaveWorkout_ExercisesInserted(tab)

EditRaceSpec == Init /\ [][EditRaceNext]_vars

\* The profiles under sign-ups and the requests of anybody.
ProfileNext ==
    \/ \E u \in UserIds : SignUp(u)
    \/ \E caller \in UserIds \cup {Anon}, id \in UserIds, u \in UserIds :
           ApiInsertProfile(caller, id, EmailOf(u))
    \/ \E caller \in UserIds \cup {Anon}, id \in UserIds, u \in UserIds :
           ApiUpdateProfile(caller, id, EmailOf(u))

ProfileSpec == Init /\ [][ProfileNext]_vars

\* ------------------------------------------------------------------------
\* Claims about calculateStreak (checked under DashSpec)
\* ------------------------------------------------------------------------

\* the dashboard shows statistics it has fetched
DashLoaded == view.name = "dashboard" /\ ~dashLoading

\* the reference day: format(today, 'yyyy-MM-dd')
Today == Format(dashNow)

\* the distinct local calendar days of a list of completions
DaysOf(ws) == {Format(ws[i]) : i \in 1..Len(ws)}

\* the number of consecutive calendar days, today first, that each hold a
\* completion
RECURSIVE RunFrom(_, _)
RunFrom(days, d) == IF d \in days THEN 1 + RunFrom(days, d - 1) ELSE 0

\* C1: calculateStreak returns 0 whenever no workout was completed on the
\* reference day, whatever earlier completions exist.
C1_ZeroWithoutToday ==
    (DashLoaded /\ Today \notin DaysOf(dashWorkouts)) => stats.currentStreak = 0

\* C2: counting backward from today, a calendar day without a completion is
\* never bridged: with a completion today, the streak counts no day beyond
\* the first day that has none.
C2_GapNeverBridged ==
    (DashLoaded /\ Today \in DaysOf(dashWorkouts))
        => stats.currentStreak <= RunFrom(DaysOf(dashWorkouts), Today)

\* C3: when the completions fall on exactly the n consecutive calendar days
\* today, today-1, ..., today-(n-1), calculateStreak returns n.
C3_ConsecutiveDays ==
    LET days == DaysOf(dashWorkouts)
        n == Cardinality(days)
    IN (DashLoaded /\ days = {Today - k : k \in 0..(n - 1)})
           => stats.currentStreak = n

\* C4: several completions on one calendar day count once: one more
\* completion on a day that already has one leaves the streak as it is.
C4_DuplicatesCountOnce ==
    DashLoaded =>
        \A t \in Instants :
            Format(t) \in DaysOf(dashWorkouts)
                => calculateStreak(InsertCompleted(dashWorkouts, t)) = stats.currentStreak

\* C4 witness: a fetched list with two completions on one day, and a streak
\* that runs over more than that day.
C4_Witness ==
    /\ DashLoaded
    /\ Len(dashWorkouts) > Cardinality(DaysOf(dashWorkouts))
    /\ stats.currentStreak >= 2

\* the n most recent of a set of calendar days
MostRecent(days, n) == {d \in days : Cardinality({e \in days : e >= d}) <= n}

\* the n most recent days all lie within the n + 1 calendar days ending today
WithinWindow(days, n) ==
    \A d \in MostRecent(days, n) : Today - n <= d /\ d <= Today

\* C23: calculateStreak returns the largest n such that the n most recent
\* distinct completion days all lie within the n + 1 calendar days ending
\* today (0 when the most recent one is later than today).
C23_StreakWindow ==
    LET days == DaysOf(dashWorkouts)
        fitting == {n \in 0..Cardinality(days) : WithinWindow(days, n)}
    IN DashLoaded
          => stats.currentStreak = CHOOSE n \in fitting : \A m \in fitting : m <= n

\* ------------------------------------------------------------------------
\* Claims about the "This Week" card (checked under WeekSpec)
\* ------------------------------------------------------------------------

\* the completed workouts of the user, as fetched, whose completion lies
\* less than WeekLen days before now
CompletedThisWeek ==
    {i \in 1..Len(dashWorkouts) :
        /\ dashWorkouts[i] <= dashNow
        /\ dashNow - dashWorkouts[i] < WeekLen * DayLen}

\* C11: the "This Week" value is the number of all the user's completed
\* workouts whose completion lies less than 7 days before now, however many
\* there are.
C11_ThisWeekCountsAll ==
    DashLoaded => ThisWeek = Cardinality(CompletedThisWeek)

\* C12: a completion exactly 7 whole days before the reference instant is
\* not counted by the "This Week" card, one exactly 6 whole days before is.
C12_WeekBoundary ==
    DashLoaded =>
        \A i \in 1..Len(stats.recentWorkouts) :
            /\ dashNow - stats.recentWorkouts[i] = WeekLen * DayLen
                   => i \notin ThisWeekRows
            /\ dashNow - stats.recentWorkouts[i] = (WeekLen - 1) * DayLen
                   => i \in ThisWeekRows

\* C12 witness: the card shows a completion exactly 7 days back next to one
\* exactly 6 days back, and counts one of the two.
C12_Witness ==
    /\ DashLoaded
    /\ Len(stats.recentWorkouts) = 2
    /\ dashNow - stats.recentWorkouts[1] = (WeekLen - 1) * DayLen
    /\ dashNow - stats.recentWorkouts[2] = WeekLen * DayLen
    /\ ThisWeek = 1

\* ------------------------------------------------------------------------
\* Claims about the food tracker (checked under FoodSpec)
\* ------------------------------------------------------------------------

\* the food tracker is rendered
FoodShown == view.name = "food"

\* the sum of one field over the first n entries, a null counting as 0
RECURSIVE SumTo(_, _, _)
SumTo(entries, field, n) ==
    IF n = 0 THEN 0
    ELSE SumTo(entries, field, n - 1)
             + (IF entries[n][field] = Null THEN 0 ELSE entries[n][field])

\* C13: the nutrition totals are the per-field sums of calories, protein,
\* carbs and fat over the list of food entries, a null protein, carbs or fat
\* counting as 0, and all zero for the empty list; the calories of the
\* dashboard are the sum over the entries its query returned.
C13_NutritionTotals ==
    /\ FoodShown =>
          /\ totalCalories = SumTo(foodEntries, "calories", Len(foodEntries))
          /\ totalProtein = SumTo(foodEntries, "protein", Len(foodEntries))
          /\ totalCarbs = SumTo(foodEntries, "carbs", Len(foodEntries))
          /\ totalFat = SumTo(foodEntries, "fat", Len(foodEntries))
          /\ foodEntries = <<>> =>
                /\ totalCalories = 0
                /\ totalProtein = 0
                /\ totalCarbs = 0
                /\ totalFat = 0
    /\ DashLoaded =>
          \/ stats.totalCalories = 0
          \/ stats.totalCalories =
                 SumTo(TodaysFood(foodTable), "calories", Len(TodaysFood(foodTable)))

\* C13 witness: a list that holds an entry without protein and fat next to
\* one that has both, with totals above zero.
C13_Witness ==
    /\ FoodShown
    /\ \E i \in 1..Len(foodEntries) :
          foodEntries[i].protein = Null /\ foodEntries[i].fat = Null
    /\ \E i \in 1..Len(foodEntries) :
          foodEntries[i].protein > 0 /\ foodEntries[i].fat > 0
    /\ totalProtein > 0
    /\ totalFat > 0
    /\ totalCalories > totalCarbs

\* C15: every search result that can be added, and every food entry the
\* client writes, has a calorie count that is an integer >= 0.
C15_CaloriesNonNegative ==
    [][ /\ \A i \in 1..Len(searchResults') : searchResults'[i].calories \in Nat
        /\ (FoodShown /\ Len(foodTable') > Len(foodTable))
              => foodTable'[Len(foodTable')].calories \in Nat
      ]_vars

\* C15 witness: the table holds an entry added from a result of the food
\* database and one added from the estimate for a query that matches nothing.
C15_Witness ==
    /\ \E k \in 1..Len(foodTable) :
          foodTable[k].name = EstimatedFood(<<"z", "z">>).name
    /\ \E k \in 1..Len(foodTable) :
          \E i \in 1..Len(foodDatabase) :
              foodTable[k].name = foodDatabase[i].food.name

\* the messages that the catch blocks of the write handlers log
WriteFailureLogs ==
    {"Error saving workout:", "Error deleting workout:",
     "Error finishing workout:", "Error saving routine:",
     "Error creating workout from routine:", "Error adding food entry:",
     "Error removing food entry:"}

\* C18: every failed write is caught and shown to the user as an alert, and
\* a failed food write leaves the table as it was (no retry, no rollback).
C18_FailedWritesAlert ==
    [][ /\ logged' \in WriteFailureLogs => alert' # ""
        /\ logged' \in {"Error adding food entry:", "Error removing food entry:"}
              => foodTable' = foodTable
      ]_vars

\* C19: when a read fails the view ends in its empty state with loading
\* cleared: the food tracker shows no entries, the dashboard zero calories.
C19_FailedReadShowsDefault ==
    [][ /\ logged' = "Error fetching food entries:"
              => foodEntries' = <<>> /\ ~foodLoading'
        /\ FetchDashboardData(TRUE, FALSE)
              => stats'.totalCalories = 0 /\ ~dashLoading'
      ]_vars

\* ------------------------------------------------------------------------
\* Claims about the forms (checked under FormSpec)
\* ------------------------------------------------------------------------

Count(table, r) == Cardinality({i \in 1..Len(table) : table[i] = r})

\* the food entry with the given id, as a set of at most one row
FoodById(table, id) == {r \in Rows(table) : r.id = id}

\* C20: a request of user U is answered with, adds, changes and removes
\* only workouts and food entries whose user_id is U, and only exercises
\* whose workout has user_id U.
C20_RowLevelSecurity ==
    [][ apiCall'.op # "" =>
          LET uid == apiCall'.user
          IN /\ apiCall'.table \in {"workouts", "food_entries"}
                   => \A r \in apiCall'.rows : r.user_id = uid
             /\ apiCall'.table = "exercises"
                   => \A r \in apiCall'.rows :
                          /\ r.workout_id \in DOMAIN workouts
                          /\ workouts[r.workout_id].user_id = uid
             /\ \A id \in DOMAIN workouts \ DOMAIN workouts' :
                   workouts[id].user_id = uid
             /\ \A id \in DOMAIN workouts' \ DOMAIN workouts :
                   workouts'[id].user_id = uid
             /\ \A id \in DOMAIN workouts \cap DOMAIN workouts' :
                   workouts'[id] # workouts[id]
                      => workouts[id].user_id = uid /\ workouts'[id].user_id = uid
             /\ \A r \in Rows(exercises) \cup Rows(exercises') :
                   /\ Count(exercises, r) > Count(exercises', r)
                         => workouts[r.workout_id].user_id = uid
                   /\ Count(exercises, r) < Count(exercises', r)
                         => workouts'[r.workout_id].user_id = uid
             /\ \A id \in 1..(MaxFood + 1) :
                   FoodById(foodTable', id) # FoodById(foodTable, id)
                      => \A r \in FoodById(foodTable, id) \cup FoodById(foodTable', id) :
                             r.user_id = uid
      ]_vars

\* C20 witness: the other user asked to delete an exercise of a workout of
\* the signed-in user, and the exercise is still there.
C20_Witness ==
    /\ apiCall.user = OtherUser
    /\ apiCall.table = "exercises"
    /\ apiCall.op = "delete"
    /\ apiCall.target \in 1..Len(exercises)
    /\ workouts[exercises[apiCall.target].workout_id].user_id = User
    /\ \E id \in DOMAIN workouts : workouts[id].user_id = OtherUser

\* ------------------------------------------------------------------------
\* Claims about profiles (checked under ProfileSpec)
\* ------------------------------------------------------------------------

\* C21: a request that inserts a row of profiles is made by the authenticated
\* user whose id is the id of the row.
C21_ProfileInsertedByOwner ==
    [][ apiCall'.table = "profiles" =>
          \A id \in DOMAIN profiles' \ DOMAIN profiles : apiCall'.user = id
      ]_vars

\* a title with a character that is no white space
NonBlank(title) == \E i \in 1..Len(title) : title[i] # " "

\* a step of the edit form's handleSaveWorkout whose exercises insert failed
EditInsertFailed == view.name = "edit" /\ thrown' = "exercises.insert"

\* C24: when an EditWorkout save fails at the insert of the exercises, after
\* the title update and the delete succeeded, the workout is stored with the
\* new title and without exercises; the exercises it had are not put back.
C24_EditLeavesNoExercises ==
    [][ EditInsertFailed =>
          /\ DOMAIN workouts' = DOMAIN workouts
          /\ workouts'[view.id].title = <<"B">>
          /\ ExercisesAmong(exercises', view.id) = <<>>
          /\ \A j \in DOMAIN workouts \ {view.id} :
                /\ workouts'[j] = workouts[j]
                /\ ExercisesAmong(exercises', j) = ExercisesOf(j)
      ]_vars

\* C24 witness: the edit form showed its error after the exercises insert
\* failed, and its workout is stored with the new title and no exercises.
C24_Witness ==
    /\ view.name = "edit"
    /\ thrown = "exercises.insert"
    /\ alert = "Error saving workout. Please try again."
    /\ workouts[view.id].title = <<"B">>
    /\ ExercisesOf(view.id) = <<>>

\* a step of a form's handleSaveWorkout that found the form invalid
SaveRejected ==
    /\ view.name \in {"new", "edit"}
    /\ alert' = "Please add a title and at least one exercise"

\* a step of a form's handleSaveWorkout that completed: the form is left for
\* the list and the tables are not as they were
SaveCompleted ==
    /\ view.name \in {"new", "edit"}
    /\ view'.name = "workouts"
    /\ <<workouts, exercises>>' # <<workouts, exercises>>

\* C28: a save of CreateWorkout or EditWorkout with a blank title or without
\* exercises writes nothing, and a save that completes leaves its workout
\* with a title that is not blank and with at least one exercise.
C28_SaveNeedsTitleAndExercise ==
    [][ /\ SaveRejected => <<workouts, exercises>>' = <<workouts, exercises>>
        /\ SaveCompleted =>
              \E id \in DOMAIN workouts' :
                 /\ view.name = "edit" => id = view.id
                 /\ view.name = "new" => id \notin DOMAIN workouts
                 /\ NonBlank(workouts'[id].title)
                 /\ Len(ExercisesAmong(exercises', id)) >= 1
      ]_vars

\* C28 witness: a workout saved from the edit form is listed, and the last
\* step was a save that the form rejected.
C28_Witness ==
    /\ alert = "Please add a title and at least one exercise"
    /\ \E id \in DOMAIN workouts :
          /\ workouts[id].title = <<"B">>
          /\ ExercisesOf(id) # <<>>

\* a step taken while the edit form is shown that is not the answer to a
\* Finish still in flight: a save of the form, or leaving it
EditFormStep == view.name = "edit" /\ finishReq' = finishReq

\* C29: a save of EditWorkout, whether it succeeds or fails, keeps every
\* workout row and changes of its own row nothing but the title:
\* completed_at, duration, is_routine and user_id stay as they were.
C29_EditFrame ==
    [][ EditFormStep =>
          /\ DOMAIN workouts' = DOMAIN workouts
          /\ \A id \in DOMAIN workouts :
                /\ workouts'[id].completed_at = workouts[id].completed_at
                /\ workouts'[id].duration = workouts[id].duration
                /\ workouts'[id].is_routine = workouts[id].is_routine
                /\ workouts'[id].user_id = workouts[id].user_id
                /\ id # view.id =>
                      /\ workouts'[id] = workouts[id]
                      /\ ExercisesAmong(exercises', id) = ExercisesOf(id)
      ]_vars

\* C29 witness: a completed workout and a routine, both saved from the edit
\* form with its title.
C29_Witness ==
    /\ \E id \in DOMAIN workouts :
          /\ workouts[id].title = <<"B">>
          /\ workouts[id].completed_at # Null
          /\ workouts[id].duration # Null
    /\ \E id \in DOMAIN workouts :
          /\ workouts[id].title = <<"B">>
          /\ workouts[id].is_routine

\* ------------------------------------------------------------------------
\* Claims about the session and the tables (checked under Spec)
\* ------------------------------------------------------------------------

\* the control state of the session component; "Gone" when none is mounted
SessionState ==
    IF ~SessionShown THEN "Gone"
    ELSE IF Falsy(startTime) THEN "NotStarted"
    ELSE IF isRunning THEN "Running"
    ELSE "Paused"

\* a step in which handleFinish issues its update
FinishClicked == finishReq = NoReq /\ finishReq' # NoReq

\* a step in which the update of handleFinish succeeds
FinishSucceeded == finishReq # NoReq /\ finishReq' = NoReq /\ navState'.completed

\* a step that mounts a WorkoutSession component
Mounted == view.name # "session" /\ view'.name = "session"

\* the transitions a mounted session may take, and its unmounting
SessionEdges ==
    {<<"NotStarted", "Running">>, <<"Running", "Paused">>, <<"Paused", "Running">>,
     <<"NotStarted", "Gone">>, <<"Running", "Gone">>, <<"Paused", "Gone">>}

\* C5: the session control state moves NotStarted -> Running <-> Paused ->
\* Finished only: a newly mounted session is NotStarted, a mounted session
\* changes state along Start, Pause and Resume only, and Finish is issued,
\* and takes effect on the session, only when it is Running or Paused.
C5_SessionTransitions ==
    [][ /\ Mounted => SessionState' = "NotStarted"
        /\ ~Mounted =>
              \/ SessionState' = SessionState
              \/ <<SessionState, SessionState'>> \in SessionEdges
        /\ FinishClicked => SessionState \in {"Running", "Paused"}
        /\ (FinishSucceeded /\ finishReq.live)
              => SessionState \in {"Running", "Paused"}
      ]_vars

\* C5 witness: a session that was started, ran for a second, was paused and
\* has its Finish in flight.
C5_Witness ==
    /\ SessionState = "Paused"
    /\ elapsedTime >= 1
    /\ finishReq # NoReq
    /\ finishReq.live

\* C6: right after Resume the elapsed time is the one held at Pause: the
\* timer formula applied to the new startTime yields elapsedTime, and the
\* elapsed time never holds more than the time the session spent running.
C6_ResumeKeepsElapsed ==
    [][ /\ (SessionState = "Paused" /\ SessionState' = "Running")
              => /\ elapsedTime' = elapsedTime
                 /\ (now' - startTime') \div SecLen = elapsedTime
        /\ elapsedTime' * SecLen <= ranFor'
      ]_vars

\* C6 witness: a session running again after a pause during which the clock
\* moved, with elapsed time on the display.
C6_Witness ==
    /\ SessionState = "Running"
    /\ pausedFor >= 1
    /\ elapsedTime >= 1

\* C7: while the session is Paused, elapsedTime does not change.
C7_PausedFreezesElapsed ==
    [][ (SessionState = "Paused" /\ SessionState' # "Gone")
            => elapsedTime' = elapsedTime ]_vars

\* C7 witness: a paused session for which the clock has moved on since the
\* pause, so that the timer formula would show more than elapsedTime.
C7_Witness ==
    /\ SessionState = "Paused"
    /\ pausedFor >= SecLen
    /\ (now - startTime) \div SecLen > elapsedTime

\* C27: while a session stays mounted, through Start, ticks, Pause and
\* Resume against a clock that never goes back, elapsedTime never decreases;
\* and isRunning is true only while startTime is set.
C27_ElapsedMonotonic ==
    [][ /\ isRunning => ~Falsy(startTime)
        /\ isRunning' => ~Falsy(startTime')
        /\ (SessionState # "Gone" /\ SessionState' # "Gone")
              => /\ now' >= now
                 /\ elapsedTime' >= elapsedTime
      ]_vars

\* C27 witness: a session that ran for a second, was paused while the clock
\* moved and runs again from the startTime that Resume computed.
C27_Witness ==
    /\ SessionState = "Running"
    /\ pausedFor >= 1
    /\ ranFor >= SecLen
    /\ elapsedTime >= 1
    /\ startTime = now - elapsedTime * SecLen

\* C8: Finish issues one update that carries the instant of the click and
\* the session's elapsedTime; when it succeeds the row holds exactly these
\* two values and the session is unmounted; whatever session is mounted
\* afterwards is a new one that starts from scratch.
C8_FinishPersists ==
    [][ /\ FinishClicked =>
              /\ SessionState \in {"Running", "Paused"}
              /\ finishReq' = [id |-> sWorkout.id, completed_at |-> now,
                               duration |-> elapsedTime, live |-> TRUE]
              /\ now # Null
        /\ FinishSucceeded =>
              /\ finishReq.id \in DOMAIN workouts =>
                    workouts' = [workouts EXCEPT
                                    ![finishReq.id].completed_at = finishReq.completed_at,
                                    ![finishReq.id].duration = finishReq.duration]
              /\ SessionState' = "Gone"
        /\ SessionState = "Gone" =>
              /\ ~FinishClicked
              /\ \/ SessionState' = "Gone"
                 \/ /\ SessionState' = "NotStarted"
                    /\ elapsedTime' = 0
                    /\ ~isRunning'
                    /\ ~saving'
      ]_vars

\* C8 witness: a finish that succeeded, its row holding the duration that
\* the router state reports, of at least one second.
C8_Witness ==
    /\ navState.completed
    /\ navState.duration >= 1
    /\ \E id \in DOMAIN workouts :
          /\ workouts[id].completed_at # Null
          /\ workouts[id].duration = navState.duration

\* C9: once the completion timestamp and duration of a workout are set, no
\* later client operation changes either value.
C9_CompletionSetOnce ==
    [][ \A id \in DOMAIN workouts :
           (workouts[id].completed_at # Null /\ id \in DOMAIN workouts')
               => /\ workouts'[id].completed_at = workouts[id].completed_at
                  /\ workouts'[id].duration = workouts[id].duration ]_vars

\* C10: every workout row has completed_at and duration both null or both
\* set.
C10_CompletionPair ==
    \A id \in DOMAIN workouts :
        (workouts[id].completed_at = Null) <=> (workouts[id].duration = Null)

\* the exercises that refer to workouts other than id
ExercisesOfOthers(id) == SelectSeq(exercises, LAMBDA e : e.workout_id # id)

\* C16: every exercise refers to one workout that exists, and a step that
\* deletes a workout removes all its exercises and no other.
C16_ExercisesFollowWorkout ==
    [][ /\ \A i \in 1..Len(exercises') :
              exercises'[i].workout_id \in DOMAIN workouts'
        /\ \A id \in DOMAIN workouts \ DOMAIN workouts' :
              /\ \A i \in 1..Len(exercises') : exercises'[i].workout_id # id
              /\ ExercisesOfOthers(id)' = ExercisesOfOthers(id)
      ]_vars

\* C16 witness: the first workout was deleted from the list, and the
\* exercises of the second are still there.
C16_Witness ==
    /\ view.name = "workouts"
    /\ DOMAIN workouts = {2}
    /\ ExercisesOf(2) # <<>>
    /\ Len(exercises) = Len(ExercisesOf(2))

\* the views whose handler inserts a workout and then its exercises:
\* CreateWorkout, RoutineList (use routine), WorkoutSession (save as routine)
InsertingViews == {"new", "routines", "session"}

\* C17: when the insert of the workout succeeded and the insert of its
\* exercises failed, the new workout row is in the table without exercises
\* and nothing else of the tables changed: nothing is rolled back.
C17_NoRollback ==
    [][ (view.name \in InsertingViews /\ thrown' = "exercises.insert")
          => \E id \in DOMAIN workouts' \ DOMAIN workouts :
                /\ DOMAIN workouts' = DOMAIN workouts \cup {id}
                /\ \A j \in DOMAIN workouts : workouts'[j] = workouts[j]
                /\ \A i \in 1..Len(exercises') : exercises'[i].workout_id # id
                /\ exercises' = exercises
      ]_vars

\* C17 witness: CreateWorkout showed its error after the exercises insert
\* failed, and the workout it inserted is in the table without exercises.
C17_Witness ==
    /\ view.name = "new"
    /\ thrown = "exercises.insert"
    /\ alert = "Error saving workout. Please try again."
    /\ \E id \in DOMAIN workouts :
          /\ ~workouts[id].is_routine
          /\ ExercisesOf(id) = <<>>

\* a step of handleUseRoutine that succeeded: the routine list is left for
\* the session of a row that was not there
RoutineStarted ==
    /\ view.name = "routines"
    /\ view'.name = "session"
    /\ view'.id \notin DOMAIN workouts

\* C22: starting a routine adds one workout that is no routine, is not
\* completed, has the title of a routine and a copy of that routine's
\* exercises (name, sets, reps, weight, in order); every row that was there
\* before, the routine and its exercises among them, is unchanged.
C22_RoutineCloned ==
    [][ RoutineStarted =>
          LET id == view'.id
          IN /\ DOMAIN workouts' = DOMAIN workouts \cup {id}
             /\ workouts'[id].is_routine = FALSE
             /\ workouts'[id].completed_at = Null
             /\ workouts'[id].duration = Null
             /\ workouts'[id].user_id = User
             /\ \E r \in DOMAIN workouts :
                   /\ workouts[r].is_routine
                   /\ workouts'[id].title = workouts[r].title
                   /\ ExercisesAmong(exercises', id) = ExercisesOf(r)
             /\ \A j \in DOMAIN workouts :
                   /\ workouts'[j] = workouts[j]
                   /\ ExercisesOf(j)' = ExercisesOf(j)
      ]_vars

\* C22 witness: the session of a workout started from a routine with
\* exercises, one of them with a weight.
C22_Witness ==
    /\ view.name = "session"
    /\ view.id \in DOMAIN workouts
    /\ ~workouts[view.id].is_routine
    /\ \E r \in DOMAIN workouts :
          /\ workouts[r].is_routine
          /\ workouts[r].title = workouts[view.id].title
          /\ ExercisesOf(r) = ExercisesOf(view.id)
          /\ \E i \in 1..Len(ExercisesOf(r)) : ExercisesOf(r)[i].weight # Null

\* a step of handleSaveAsRoutine that stored a routine: the session stays
\* and a row is there that was not
RoutineSaved ==
    /\ view.name = "session"
    /\ view' = view
    /\ DOMAIN workouts' # DOMAIN workouts

\* C30: saving a workout as a routine stores a routine with the workout's
\* title followed by " (Routine)" and a copy of its exercises, and starting
\* a routine so saved adds a workout that is no routine, is not completed,
\* and has that title and the exercises of the original workout; neither
\* step changes the original workout or its exercises.
C30_RoutineRoundTrip ==
    [][ /\ RoutineSaved =>
              \E r \in DOMAIN workouts' \ DOMAIN workouts :
                 /\ DOMAIN workouts' = DOMAIN workouts \cup {r}
                 /\ workouts'[r].is_routine
                 /\ workouts'[r].title = workouts[view.id].title \o <<" ", "(Routine)">>
                 /\ ExercisesAmong(exercises', r) = ExercisesOf(view.id)
                 /\ workouts'[view.id] = workouts[view.id]
                 /\ ExercisesAmong(exercises', view.id) = ExercisesOf(view.id)
        /\ RoutineStarted =>
              \E o \in DOMAIN workouts :
                 /\ workouts'[view'.id].title = workouts[o].title \o <<" ", "(Routine)">>
                 /\ ExercisesAmong(exercises', view'.id) = ExercisesOf(o)
                 /\ ~workouts'[view'.id].is_routine
                 /\ workouts'[view'.id].completed_at = Null
                 /\ workouts'[o] = workouts[o]
                 /\ ExercisesAmong(exercises', o) = ExercisesOf(o)
      ]_vars

\* C30 witness: a workout with exercises, its routine, and the session of
\* the workout started from that routine, all three stored.
C30_Witness ==
    /\ view.name = "session"
    /\ view.id \in DOMAIN workouts
    /\ ~workouts[view.id].is_routine
    /\ \E o, r \in DOMAIN workouts \ {view.id} :
          /\ ~workouts[o].is_routine
          /\ workouts[r].is_routine
          /\ workouts[r].title = workouts[o].title \o <<" ", "(Routine)">>
          /\ workouts[view.id].title = workouts[r].title
          /\ ExercisesOf(view.id) = ExercisesOf(o)
          /\ ExercisesOf(r) = ExercisesOf(o)
          /\ \E i \in 1..Len(ExercisesOf(o)) : ExercisesOf(o)[i].weight # Null

\* C25: once no answer of fetchFoodEntries is on its way, the entries
\* shown are the stored entries of the selected date, in whatever order
\* the answers arrived.
C25_ShownEntriesOfSelectedDate ==
    (view.name = "food" /\ foodFetches = {})
        => foodEntries = FoodQuery(foodTable, selectedDate)

\* C26: when two saves of the edit form for one workout have both
\* succeeded, the stored exercises of the workout are those of one of the
\* two forms, however the requests of the two saves interleaved.
C26_OneSaveWins ==
    (/\ editSaves[1].pc = "saved"
     /\ editSaves[2].pc = "saved"
     /\ editSaves[1].id = editSaves[2].id)
        => ExercisesOf(editSaves[1].id)
               \in {editSaves[1].exercises, editSaves[2].exercises}

\* C10 witness: a completed row next to a row whose exercises insert failed.
C10_Witness ==
    /\ \E id \in DOMAIN workouts : workouts[id].completed_at # Null
    /\ \E id \in DOMAIN workouts :
          /\ workouts[id].completed_at = Null
          /\ ExercisesOf(id) = <<>>

====
